---- MODULE Spec2Model ----
(***************************************************************************)
(* Structural validation of a Golden Record CSV against a schema tree:     *)
(* CSV loader (structure detection, batch reader), transformer (column     *)
(* parser, entity mapper, row transformer), comparator (metadata adapter,  *)
(* rule registry, rule engine, built-in rules), report aggregation and the *)
(* orchestrator that sequences them.                                       *)
(*                                                                         *)
(* Representation.                                                         *)
(*  - An identifier (column name, entity id, field id, full path) is the   *)
(*    sequence of its '_'-separated segments, i.e. what str.split('_')     *)
(*    returns; f"{a}_{b}" is a \o b.  The empty string is <<"">>.          *)
(*  - A cell value is the sequence of its characters.                      *)
(*  - A Python dict whose iteration order is observable is a sequence of   *)
(*    [k, v] pairs in insertion order.                                     *)
(*  - Python None is the sentinel None (identifiers, values), NoStr        *)
(*    (plain strings) or NoInt (integers).                                 *)
(***************************************************************************)
EXTENDS Integers, Sequences, FiniteSets, TLC

None  == <<"<None>">>
NoStr == "<None>"
NoInt == 0 - 1

EmptyStr == <<"">>

\* Largest number of physical rows after the label row in an input file.
MaxRows == 4

\* BatchReader.BATCH_SIZE is 10000 in the source; the model scales it down
\* so that files of MaxRows rows span several batches.
BATCH_SIZE == 2

RECURSIVE SeqSum(_)
SeqSum(s) == IF s = <<>> THEN 0 ELSE Head(s) + SeqSum(Tail(s))

RECURSIVE Flatten(_)
Flatten(ss) == IF ss = <<>> THEN <<>> ELSE Head(ss) \o Flatten(Tail(ss))

Range(s) == { s[i] : i \in 1..Len(s) }

\* ---------------------------------------------------------------- dicts
DictHas(d, k) == \E i \in 1..Len(d) : d[i].k = k

DictGet(d, k) == d[CHOOSE i \in 1..Len(d) : d[i].k = k].v

\* d[k] = v : overwrite in place when the key exists, else append.
DictPut(d, k, v) ==
    IF DictHas(d, k)
    THEN [i \in 1..Len(d) |-> IF d[i].k = k THEN [k |-> k, v |-> v] ELSE d[i]]
    ELSE Append(d, [k |-> k, v |-> v])

DictKeys(d) == [i \in 1..Len(d) |-> d[i].k]

\* ------------------------------------------------------- string helpers
IsSpace(c) == c = " "

RECURSIVE LStrip(_)
LStrip(v) == IF v # <<>> /\ IsSpace(Head(v)) THEN LStrip(Tail(v)) ELSE v

RECURSIVE RStrip(_)
RStrip(v) ==
    IF v # <<>> /\ IsSpace(v[Len(v)]) THEN RStrip(SubSeq(v, 1, Len(v) - 1)) ELSE v

\* str.strip()
Strip(v) == RStrip(LStrip(v))

\* The same on text held as a string: x.strip().
RECURSIVE LStripStr(_)
LStripStr(x) ==
    IF Len(x) > 0 /\ IsSpace(SubSeq(x, 1, 1)) THEN LStripStr(SubSeq(x, 2, Len(x))) ELSE x

RECURSIVE RStripStr(_)
RStripStr(x) ==
    IF Len(x) > 0 /\ IsSpace(SubSeq(x, Len(x), Len(x)))
    THEN RStripStr(SubSeq(x, 1, Len(x) - 1)) ELSE x

StripStr(x) == RStripStr(LStripStr(x))

\* x.split('_'): the segments of x, at least one.
RECURSIVE SplitFrom(_, _, _)
SplitFrom(x, i, cur) ==
    IF i > Len(x) THEN << cur >>
    ELSE IF SubSeq(x, i, i) = "_" THEN << cur >> \o SplitFrom(x, i + 1, "")
    ELSE SplitFrom(x, i + 1, cur \o SubSeq(x, i, i))

SplitName(x) == SplitFrom(x, 1, "")

\* A header cell as the model holds identifiers: the segments of its trimmed
\* text (column_str = str(column).strip(), column_name.strip().split('_')).
Cell(x) == SplitName(StripStr(x))

\* ------------------------------------------------------- column parser
UpperLetters ==
    {"A", "B", "C", "D", "E", "F", "G", "H", "I", "J", "K", "L", "M",
     "N", "O", "P", "Q", "R", "S", "T", "U", "V", "W", "X", "Y", "Z"}

\* Variant: only the listed common countries count as country codes.
InCommonCountries(code) ==
    code \in {"MEX", "USA", "CAN", "BRA", "ARG", "CHL", "COL", "PER", "ESP", "FRA",
              "DEU", "GBR", "ITA", "JPN", "CHN", "IND", "AUS", "NZL"}

\* _looks_like_country_code: 2 <= len(code) <= 3, code.isupper() and
\* code.isalpha() (the list of common countries changes nothing).
LooksLikeCountryCode(code) ==
    /\ 2 <= Len(code) /\ Len(code) <= 3
    /\ \A i \in 1..Len(code) : SubSeq(code, i, i) \in UpperLetters

COMPOUND_ELEMENTS ==
    { <<"homeAddress", "home">>, <<"homeAddress", "fiscal">>,
      <<"workPermitInfo", "RFC">>, <<"workPermitInfo", "IMMS">>,
      <<"globalInfo">>, <<"biographicalInfoLoc">> }

ParsedColumn(name, element, field, scoped, country) ==
    [original_name |-> name, element_id |-> element, field_id |-> field,
     is_country_specific |-> scoped, country_code |-> country]

NoColumn == ParsedColumn(None, None, None, FALSE, NoStr)

\* parse_column: [ok |-> TRUE, col |-> ParsedColumn] or [ok |-> FALSE, ...]
ParseColumn(name) ==
    LET parts == name
        n     == Len(parts)
        bad   == [ok |-> FALSE, col |-> NoColumn]
        mk(e, f, s, c) ==
            IF e = EmptyStr \/ f = EmptyStr THEN bad
            ELSE [ok |-> TRUE, col |-> ParsedColumn(name, e, f, s, c)]
    IN  IF name = EmptyStr THEN bad
        ELSE IF n < 2 THEN bad
        ELSE IF n >= 3 /\ LooksLikeCountryCode(parts[1])
        THEN IF n >= 4
             THEN IF <<parts[2], parts[3]>> \in COMPOUND_ELEMENTS
                  THEN mk(<<parts[2], parts[3]>>, SubSeq(parts, 4, n), TRUE, parts[1])
                  ELSE mk(<<parts[2]>>, SubSeq(parts, 3, n), TRUE, parts[1])
             ELSE mk(<<parts[2]>>, <<parts[3]>>, TRUE, parts[1])
        ELSE IF <<parts[1], parts[2]>> \in COMPOUND_ELEMENTS /\ n >= 3
             THEN mk(<<parts[1], parts[2]>>, SubSeq(parts, 3, n), FALSE, NoStr)
             ELSE mk(<<parts[1]>>, SubSeq(parts, 2, n), FALSE, NoStr)

\* parse_all_columns: a placeholder ERROR_<index> column keeps the positions.
ParseAllColumns(column_names) ==
    [i \in 1..Len(column_names) |->
        LET r == ParseColumn(column_names[i])
        IN  IF r.ok THEN r.col
            ELSE ParsedColumn(column_names[i], <<"ERROR", ToString(i - 1)>>,
                              column_names[i], FALSE, NoStr)]

\* -------------------------------------------------------- entity mapper
EntityData(id) ==
    [entity_id |-> id, columns |-> <<>>, field_mapping |-> <<>>,
     column_index_mapping |-> <<>>]

\* EntityData.add_column
AddColumn(e, index, column) ==
    [e EXCEPT !.columns = Append(@, column),
              !.field_mapping = DictPut(@, column.field_id, column),
              !.column_index_mapping = DictPut(@, index, column)]

RECURSIVE MapFrom(_, _, _)
MapFrom(parsed_columns, i, acc) ==
    IF i > Len(parsed_columns) THEN acc
    ELSE LET column == parsed_columns[i]
             id     == column.element_id
             ents   == IF DictHas(acc.entities, id) THEN acc.entities
                       ELSE DictPut(acc.entities, id, EntityData(id))
             ents2  == DictPut(ents, id, AddColumn(DictGet(ents, id), i - 1, column))
         IN  MapFrom(parsed_columns, i + 1,
                     [entities |-> ents2,
                      column_to_entity_map |-> DictPut(acc.column_to_entity_map, i - 1, id)])

\* map_columns_to_entities: (entities, column_to_entity_map)
MapColumnsToEntities(parsed_columns) ==
    MapFrom(parsed_columns, 1, [entities |-> <<>>, column_to_entity_map |-> <<>>])

\* transform_csv_context: the TransformationContext of a header.
TransformCsvContext(columns) ==
    LET pc == ParseAllColumns(columns)
        m  == MapColumnsToEntities(pc)
    IN  [parsed_columns |-> pc, entities |-> m.entities,
         column_to_entity_map |-> m.column_to_entity_map]

\* ------------------------------------------------------ row transformer
RowTransformationError(row_index, col_index) ==
    [code |-> "ROW_TRANSFORMATION_ERROR", severity |-> "ERROR",
     row_index |-> row_index, column_name |-> <<"col", ToString(col_index)>>]

\* The body of transform_row's loop for one cell (col_index is 0-based).
TransformCell(tr, col_index, value, column_to_entity_map, entities) ==
    LET err == [tr EXCEPT !.errors =
                    Append(@, RowTransformationError(tr.original_row_index, col_index))]
    IN  IF col_index >= Len(column_to_entity_map) THEN err
        ELSE IF ~DictHas(column_to_entity_map, col_index) THEN err
        ELSE LET entity_id == DictGet(column_to_entity_map, col_index)
             IN  IF entity_id = EmptyStr THEN err
                 ELSE IF ~DictHas(entities, entity_id) THEN err
                 ELSE LET entity_data == DictGet(entities, entity_id)
                      IN  IF ~DictHas(entity_data.column_index_mapping, col_index) THEN err
                          ELSE LET column_info ==
                                       DictGet(entity_data.column_index_mapping, col_index)
                                   inner == IF DictHas(tr.data_by_entity, entity_id)
                                            THEN DictGet(tr.data_by_entity, entity_id)
                                            ELSE <<>>
                               IN  [tr EXCEPT !.data_by_entity =
                                        DictPut(@, entity_id,
                                                DictPut(inner, column_info.field_id, value))]

\* Variant: the loop ends at the first cell that cannot be resolved.
RECURSIVE TransformCellsUntilError(_, _, _, _, _)
TransformCellsUntilError(tr, i, row_values, column_to_entity_map, entities) ==
    IF i > Len(row_values) THEN tr
    ELSE LET nx == TransformCell(tr, i - 1, row_values[i], column_to_entity_map, entities)
         IN  IF Len(nx.errors) > Len(tr.errors) THEN nx
             ELSE TransformCellsUntilError(nx, i + 1, row_values,
                                           column_to_entity_map, entities)

RECURSIVE TransformCells(_, _, _, _, _)
TransformCells(tr, i, row_values, column_to_entity_map, entities) ==
    IF i > Len(row_values) THEN tr
    ELSE TransformCells(
            TransformCell(tr, i - 1, row_values[i], column_to_entity_map, entities),
            i + 1, row_values, column_to_entity_map, entities)

\* transform_row
TransformRow(row_values, row_index, csv_start_index, column_to_entity_map, entities) ==
    TransformCells(
        [original_row_index |-> row_index,
         csv_row_index |-> csv_start_index + row_index,
         data_by_entity |-> [i \in 1..Len(entities) |-> [k |-> entities[i].k, v |-> <<>>]],
         raw_values |-> row_values,
         errors |-> <<>>],
        1, row_values, column_to_entity_map, entities)

\* The index transform_batch gives the row at row_offset of a batch.
AbsoluteRowIndex(batch_index, batch_len, row_offset) ==
    (batch_index * batch_len) + row_offset

\* transform_batch
TransformBatch(batch_rows, batch_index, csv_start_index, column_to_entity_map, entities) ==
    [o \in 1..Len(batch_rows) |->
        TransformRow(batch_rows[o],
                     AbsoluteRowIndex(batch_index, Len(batch_rows), o - 1),
                     csv_start_index, column_to_entity_map, entities)]

\* ---------------------------------------------------- metadata adapter
DigitVal(c) ==
    CASE c = "0" -> 0 [] c = "1" -> 1 [] c = "2" -> 2 [] c = "3" -> 3 [] c = "4" -> 4
      [] c = "5" -> 5 [] c = "6" -> 6 [] c = "7" -> 7 [] c = "8" -> 8 [] c = "9" -> 9
      [] OTHER -> NoInt

IsDigits(v) == v # <<>> /\ \A i \in 1..Len(v) : DigitVal(v[i]) # NoInt

RECURSIVE DigitsToInt(_)
DigitsToInt(v) ==
    IF v = <<>> THEN 0 ELSE 10 * DigitsToInt(SubSeq(v, 1, Len(v) - 1)) + DigitVal(v[Len(v)])

\* _parse_max_length: int(str(raw).strip()), None when absent or unparseable
\* (the attribute values of the model carry no sign).
ParseMaxLength(raw) ==
    IF raw = None \/ raw = <<>> THEN NoInt
    ELSE IF IsDigits(Strip(raw)) THEN DigitsToInt(Strip(raw)) ELSE NoInt

StartsWithAny(name, prefixes) == Len(name) >= 2 /\ name[1] \in prefixes

FieldMetadata(element, field, path, required, type, maxlen, scoped, country) ==
    [element_id |-> element, field_id |-> field, full_path |-> path,
     is_required |-> required, data_type |-> type, max_length |-> maxlen,
     is_country_specific |-> scoped, country_code |-> country]

EntityMetadata(id, scoped, country) ==
    [entity_id |-> id, fields |-> <<>>, required_fields |-> {},
     is_country_specific |-> scoped, country_code |-> country]

EmptyMetadataContext == [entities |-> <<>>, field_by_full_path |-> <<>>]

\* entity.fields[field_id] = fm; if required: entity.required_fields.add(field_id)
AddField(entities, entity_id, fm) ==
    LET e == DictGet(entities, entity_id)
    IN  DictPut(entities, entity_id,
                [e EXCEPT !.fields = DictPut(@, fm.field_id, fm),
                          !.required_fields =
                              IF fm.is_required THEN @ \cup {fm.field_id} ELSE @])

\* The "hris-element" branch of _extract_field_metadata.
ExtractElement(node, mc, parent) ==
    LET element_id == node.technical_id
        origin_csf == node.origin = "csf"
        country_code == IF node.country \in {"", "UNKNOWN", NoStr}
                        THEN NoStr ELSE node.country
        is_cs == origin_csf /\ country_code # NoStr
    IN  IF element_id = EmptyStr \/ element_id = None
        THEN [mc |-> mc, parent |-> parent]
        ELSE [mc |-> IF DictHas(mc.entities, element_id) THEN mc
                     ELSE [mc EXCEPT !.entities =
                              DictPut(@, element_id,
                                      EntityMetadata(element_id, is_cs, country_code))],
              parent |-> element_id]

\* The country-scoped case of the "hris-field" branch: two records.
ExtractCsfField(node, mc, parent) ==
    LET entity_meta == DictGet(mc.entities, parent)
        cc == entity_meta.country_code
        field_id == node.technical_id
        required == node.required
        maxlen == ParseMaxLength(node.max_length)
        internal_full_path == parent \o field_id
        csv_full_path == <<cc>> \o parent \o field_id
        country_element_id == <<cc>> \o parent
        internal == FieldMetadata(parent, field_id, internal_full_path, required,
                                  node.type, maxlen, TRUE, cc)
        csv == FieldMetadata(country_element_id, field_id, csv_full_path, required,
                             node.type, maxlen, TRUE, cc)
        idx == DictPut(DictPut(mc.field_by_full_path, internal_full_path, internal),
                       csv_full_path, csv)
        ents1 == IF DictHas(mc.entities, country_element_id) THEN mc.entities
                 ELSE DictPut(mc.entities, country_element_id,
                              EntityMetadata(country_element_id, TRUE, cc))
        ents2 == AddField(AddField(ents1, parent, internal), country_element_id, csv)
    IN  [entities |-> ents2, field_by_full_path |-> idx]

\* The remaining case of the "hris-field" branch: one record at parent_field.
ExtractPlainField(node, mc, parent) ==
    LET field_id == node.technical_id
        full_path == parent \o field_id
        fm == FieldMetadata(parent, field_id, full_path, node.required, node.type,
                            ParseMaxLength(node.max_length),
                            StartsWithAny(parent, {"MEX", "USA", "BRA", "NADRO"}),
                            IF Len(parent) >= 2 THEN parent[1] ELSE NoStr)
    IN  [entities |-> IF DictHas(mc.entities, parent)
                      THEN AddField(mc.entities, parent, fm) ELSE mc.entities,
         field_by_full_path |-> DictPut(mc.field_by_full_path, full_path, fm)]

\* The "hris-field" branch of _extract_field_metadata.
ExtractField(node, mc, parent) ==
    IF parent = None \/ parent = EmptyStr THEN mc
    ELSE IF node.technical_id = EmptyStr \/ node.technical_id = None THEN mc
    ELSE IF DictHas(mc.entities, parent)
            /\ DictGet(mc.entities, parent).is_country_specific
            /\ DictGet(mc.entities, parent).country_code # NoStr
         THEN ExtractCsfField(node, mc, parent)
         ELSE ExtractPlainField(node, mc, parent)

\* The branch for other nodes of node_type "element".
ExtractOther(node, mc, parent) ==
    IF node.node_type = "element" /\ node.technical_id # EmptyStr
                                  /\ node.technical_id # None
    THEN [mc |-> IF ~DictHas(mc.entities, node.technical_id)
                    /\ StartsWithAny(node.technical_id, {"workPermitInfo", "homeAddress"})
                 THEN [mc EXCEPT !.entities =
                          DictPut(@, node.technical_id,
                                  EntityMetadata(node.technical_id, FALSE, NoStr))]
                 ELSE mc,
          parent |-> node.technical_id]
    ELSE [mc |-> mc, parent |-> parent]

\* _extract_field_metadata on one node (its children follow it in the
\* pre-order sequence; the children of a field node are never visited).
ExtractFieldMetadata(node, mc, parent) ==
    IF node.tag = "hris-element" THEN ExtractElement(node, mc, parent)
    ELSE IF node.tag = "hris-field"
         THEN [mc |-> ExtractField(node, mc, parent), parent |-> parent]
         ELSE ExtractOther(node, mc, parent)

RECURSIVE WalkFrom(_, _, _, _)
WalkFrom(nodes, i, mc, parent) ==
    IF i > Len(nodes) THEN mc
    ELSE LET r == ExtractFieldMetadata(nodes[i], mc, parent)
         IN  WalkFrom(nodes, i + 1, r.mc, r.parent)

\* node_tag.lower() raises on a node whose tag is None.
AdaptationRaises(nodes) == \E i \in 1..Len(nodes) : nodes[i].tag = NoStr

\* adapt_parsed_metadata: the depth-first walk threads parent_element through
\* the return values, so it is a left fold over the pre-order node sequence.
AdaptParsedMetadata(nodes) == WalkFrom(nodes, 1, EmptyMetadataContext, None)

\* ------------------------------------------------------ comparator errors
\* A ValidationError without its message text (the text is a function of the
\* other fields).  expected/actual hold the integers of MAX_LENGTH_EXCEEDED,
\* expected_type/actual_value the strings of INVALID_DATA_TYPE, rule_id is
\* details["rule_id"], truncated_value is details["truncated_value"].
BaseError ==
    [code |-> "", severity |-> "", scope |-> "",
     row_index |-> NoInt, csv_row_index |-> NoInt,
     entity_id |-> None, field_id |-> None, column_name |-> None,
     expected |-> NoInt, actual |-> NoInt,
     expected_type |-> NoStr, actual_value |-> None,
     metadata_path |-> None, rule_id |-> NoStr, truncated_value |-> None,
     person_id_external |-> None]

missing_metadata_for_field(field_path) ==
    [BaseError EXCEPT !.code = "MISSING_METADATA_FOR_FIELD", !.severity = "WARNING",
                      !.scope = "GLOBAL", !.metadata_path = field_path]

required_column_missing(entity_id, field_id) ==
    [BaseError EXCEPT !.code = "REQUIRED_COLUMN_MISSING", !.severity = "ERROR",
                      !.scope = "ENTITY", !.entity_id = entity_id,
                      !.field_id = field_id]

required_value_missing(row_index, csv_row_index, entity_id, field_id, column_name, person_id_external) ==
    [BaseError EXCEPT !.code = "REQUIRED_VALUE_MISSING", !.severity = "ERROR",
                      !.scope = "ROW", !.row_index = row_index,
                      !.csv_row_index = csv_row_index, !.entity_id = entity_id,
                      !.field_id = field_id, !.column_name = column_name,
                      !.person_id_external = person_id_external]

invalid_data_type(row_index, csv_row_index, entity_id, field_id, column_name, expected_type, actual_value, person_id_external) ==
    [BaseError EXCEPT !.code = "INVALID_DATA_TYPE", !.severity = "ERROR",
                      !.scope = "FIELD", !.row_index = row_index,
                      !.csv_row_index = csv_row_index, !.entity_id = entity_id,
                      !.field_id = field_id, !.column_name = column_name,
                      !.expected_type = expected_type, !.actual_value = actual_value,
                      !.person_id_external = person_id_external]

max_length_exceeded(row_index, csv_row_index, entity_id, field_id, column_name, max_length, actual_length, value, person_id_external) ==
    [BaseError EXCEPT !.code = "MAX_LENGTH_EXCEEDED", !.severity = "ERROR",
                      !.scope = "FIELD", !.row_index = row_index,
                      !.csv_row_index = csv_row_index, !.entity_id = entity_id,
                      !.field_id = field_id, !.column_name = column_name,
                      !.expected = max_length, !.actual = actual_length,
                      !.truncated_value =
                          IF Len(value) > 50
                          THEN SubSeq(value, 1, 50) \o <<".", ".", ".">> ELSE value,
                      !.person_id_external = person_id_external]

rule_execution_failed(rule_id) ==
    [BaseError EXCEPT !.code = "RULE_EXECUTION_FAILED", !.severity = "FATAL",
                      !.scope = "GLOBAL", !.rule_id = rule_id]

\* ------------------------------------------------------------- rules
\* The arguments the engine hands to a FIELD rule.
FieldArgs(entity_id, fm, value, row_index, csv_row_index, column_name, pid) ==
    [entity_id |-> entity_id, field_metadata |-> fm, value |-> value,
     row_index |-> row_index, csv_row_index |-> csv_row_index,
     column_name |-> column_name, person_id_external |-> pid]

\* column_name or f"{entity_id}_{field_metadata.field_id}"
ColumnNameOr(a) ==
    IF a.column_name # None /\ a.column_name # EmptyStr THEN a.column_name
    ELSE a.entity_id \o a.field_metadata.field_id

\* Variant: only None and the empty string count as missing.
IsNullOnly(value) == value = None \/ value = <<>>

IsNullOrEmpty(value) == value = None \/ Strip(value) = <<>>

\* NotNullRule.should_skip
NotNullShouldSkip(fm, value) == ~fm.is_required

\* NotNullRule.validate
NotNullValidate(a) ==
    IF ~a.field_metadata.is_required THEN <<>>
    ELSE IF IsNullOrEmpty(a.value)
         THEN << required_value_missing(a.row_index, a.csv_row_index, a.entity_id,
                                        a.field_metadata.field_id, ColumnNameOr(a),
                                        a.person_id_external) >>
         ELSE <<>>

\* '^-?\d+$'
MatchesInteger(v) ==
    LET d == IF v # <<>> /\ Head(v) = "-" THEN Tail(v) ELSE v IN IsDigits(d)

\* '^-?\d+(\.\d+)?$'
MatchesNumber(v) ==
    \/ MatchesInteger(v)
    \/ \E i \in 2..(Len(v) - 1) :
          /\ v[i] = "."
          /\ MatchesInteger(SubSeq(v, 1, i - 1))
          /\ IsDigits(SubSeq(v, i + 1, Len(v)))

\* DataTypeRule._validate_type for the types the schemas of the model declare
\* ("string", "integer", "number"; any other declared type is unknown).
ValidateType(data_type, value) ==
    CASE data_type = "integer" -> MatchesInteger(value)
      [] data_type = "number"  -> MatchesNumber(value)
      [] OTHER -> TRUE

\* DataTypeRule.should_skip
DataTypeShouldSkip(fm, value) ==
    fm.data_type = NoStr \/ fm.data_type = "" \/ IsNullOrEmpty(value)

\* DataTypeRule.validate
DataTypeValidate(a) ==
    IF a.field_metadata.data_type = NoStr \/ a.field_metadata.data_type = "" THEN <<>>
    ELSE IF IsNullOrEmpty(a.value) THEN <<>>
    ELSE IF ValidateType(a.field_metadata.data_type, Strip(a.value)) THEN <<>>
    ELSE << invalid_data_type(a.row_index, a.csv_row_index, a.entity_id,
                              a.field_metadata.field_id, ColumnNameOr(a),
                              a.field_metadata.data_type,
                              SubSeq(Strip(a.value), 1,
                                     IF Len(Strip(a.value)) > 50 THEN 50
                                     ELSE Len(Strip(a.value))),
                              a.person_id_external) >>

\* MaxLengthRule.should_skip
MaxLengthShouldSkip(fm, value) == fm.max_length = NoInt \/ value = None

\* Variant: a value of exactly the maximum length is rejected too.
ExceedsOrEquals(actual_length, max_length) == actual_length >= max_length

\* The comparison MaxLengthRule.validate makes.
ExceedsMaxLength(actual_length, max_length) == actual_length > max_length

\* MaxLengthRule.validate
MaxLengthValidate(a) ==
    IF a.field_metadata.max_length = NoInt THEN <<>>
    ELSE IF a.value = None THEN <<>>
    ELSE IF ExceedsMaxLength(Len(a.value), a.field_metadata.max_length)
         THEN << max_length_exceeded(a.row_index, a.csv_row_index, a.entity_id,
                                     a.field_metadata.field_id, ColumnNameOr(a),
                                     a.field_metadata.max_length, Len(a.value),
                                     a.value, a.person_id_external) >>
         ELSE <<>>

\* Iteration over a Python set: some fixed order of its members.
RECURSIVE SetToSeq(_)
SetToSeq(S) ==
    IF S = {} THEN <<>>
    ELSE LET x == CHOOSE y \in S : TRUE IN <<x>> \o SetToSeq(S \ {x})

\* Variant: any column of the entity counts, whatever its field id.
EntityHasColumns(transform_entity, field_id) == transform_entity.columns # <<>>

\* any(col.field_id == field_id for col in transform_entity.columns)
FieldExists(transform_entity, field_id) ==
    \E i \in 1..Len(transform_entity.columns) :
        transform_entity.columns[i].field_id = field_id

\* RequiredColumnRule.validate for one metadata entity.
RequiredColumnsOfEntity(meta_entity, transform_entities) ==
    LET req == SetToSeq(meta_entity.required_fields)
        missing(f) ==
            IF ~DictHas(transform_entities, meta_entity.entity_id) THEN TRUE
            ELSE ~FieldExists(DictGet(transform_entities, meta_entity.entity_id), f)
        errs == [i \in 1..Len(req) |->
                    IF missing(req[i])
                    THEN << required_column_missing(meta_entity.entity_id, req[i]) >>
                    ELSE <<>>]
    IN  Flatten(errs)

\* RequiredColumnRule.validate
RequiredColumnValidate(tc, mc) ==
    Flatten([i \in 1..Len(mc.entities) |->
                RequiredColumnsOfEntity(mc.entities[i].v, tc.entities)])

\* ------------------------------------------------------ rule registry
\* ALL_RULES, in the order register_default_rules registers them.
ALL_RULES == << "required_columns", "not_null", "data_type", "max_length" >>

\* Rules a caller can add with register_rule: a GLOBAL rule, and two FIELD
\* rules of which the first one may raise.
PluginRules == << "plugin_global", "plugin_faulty", "plugin_audit" >>

\* rule.scope
RuleScope(rule_id) ==
    CASE rule_id = "required_columns" -> "ENTITY"
      [] rule_id = "plugin_global" -> "GLOBAL"
      [] OTHER -> "FIELD"

\* RuleRegistry.__init__ : the default rules, all enabled.
NewRegistry ==
    [rule_instances |-> ALL_RULES,
     configurations |-> [i \in 1..Len(ALL_RULES) |-> [k |-> ALL_RULES[i], v |-> TRUE]]]

\* RuleRegistry.register_rule (the caller made sure the id is new).
RegisterRule(reg, rule_id) ==
    [rule_instances |-> Append(reg.rule_instances, rule_id),
     configurations |-> DictPut(reg.configurations, rule_id, TRUE)]

\* RuleRegistry.configure_rule(rule_id, enabled)
ConfigureRule(reg, rule_id, enabled) ==
    [reg EXCEPT !.configurations = DictPut(@, rule_id, enabled)]

\* RuleRegistry.get_enabled_rules(scope)
GetEnabledRules(reg, scope) ==
    LET keep(r) == /\ DictHas(reg.configurations, r)
                   /\ DictGet(reg.configurations, r)
                   /\ RuleScope(r) = scope
    IN  SelectSeq(reg.rule_instances, keep)

\* RuleEngine.__init__ / _categorize_rules
NewRuleEngine(reg) ==
    [global_rules |-> GetEnabledRules(reg, "GLOBAL"),
     entity_rules |-> GetEnabledRules(reg, "ENTITY"),
     field_rules  |-> GetEnabledRules(reg, "FIELD")]

\* -------------------------------------------------------- rule engine
\* What a plug-in rule does is an input of the run:
\*   plug.global  in {"ok", "error", "raise"}   validate of plugin_global
\*   plug.phase   in {"none", "should_skip", "validate"}
\*   plug.trigger   plugin_faulty raises in plug.phase on this value.
NoPlug == [global |-> "ok", phase |-> "none", trigger |-> None]

PluginGlobalError ==
    [BaseError EXCEPT !.code = "PLUGIN_GLOBAL", !.severity = "WARNING",
                      !.scope = "GLOBAL"]

\* rule.should_skip(field_metadata, value): "skip", "run" or "raise".
ShouldSkip(rule_id, fm, value, plug) ==
    CASE rule_id = "not_null" ->
            IF NotNullShouldSkip(fm, value) THEN "skip" ELSE "run"
      [] rule_id = "data_type" ->
            IF DataTypeShouldSkip(fm, value) THEN "skip" ELSE "run"
      [] rule_id = "max_length" ->
            IF MaxLengthShouldSkip(fm, value) THEN "skip" ELSE "run"
      [] rule_id = "plugin_faulty" ->
            IF plug.phase = "should_skip" /\ value = plug.trigger THEN "raise" ELSE "run"
      [] OTHER -> "run"

\* rule.validate(...) of a FIELD rule: [raised, errors].
ValidateFieldRule(rule_id, a, plug) ==
    CASE rule_id = "not_null" -> [raised |-> FALSE, errors |-> NotNullValidate(a)]
      [] rule_id = "data_type" -> [raised |-> FALSE, errors |-> DataTypeValidate(a)]
      [] rule_id = "max_length" -> [raised |-> FALSE, errors |-> MaxLengthValidate(a)]
      [] rule_id = "plugin_faulty" ->
            [raised |-> plug.phase = "validate" /\ a.value = plug.trigger,
             errors |-> <<>>]
      [] OTHER -> [raised |-> FALSE, errors |-> <<>>]

\* One iteration of the loop over self._field_rules in _validate_field:
\* the errors it adds and what happened to the rule.
RunFieldRule(rule_id, a, plug) ==
    LET sk == ShouldSkip(rule_id, a.field_metadata, a.value, plug)
        r  == ValidateFieldRule(rule_id, a, plug)
    IN  IF sk = "raise"
        THEN [errors |-> << rule_execution_failed(rule_id) >>,
              call |-> [rule |-> rule_id, outcome |-> "raised"]]
        ELSE IF sk = "skip"
        THEN [errors |-> <<>>, call |-> [rule |-> rule_id, outcome |-> "skipped"]]
        ELSE IF r.raised
        THEN [errors |-> << rule_execution_failed(rule_id) >>,
              call |-> [rule |-> rule_id, outcome |-> "raised"]]
        ELSE [errors |-> r.errors,
              call |-> [rule |-> rule_id, outcome |-> "validated"]]

\* Variant: no try/except around the rule, the loop ends at the first raise.
RunFieldRulesUnguarded(field_rules, a, plug) ==
    LET rs == [i \in 1..Len(field_rules) |-> RunFieldRule(field_rules[i], a, plug)]
        raised == { i \in 1..Len(rs) : rs[i].call.outcome = "raised" }
        last == IF raised = {} THEN Len(rs)
                ELSE CHOOSE i \in raised : \A j \in raised : i <= j
    IN  [errors |-> Flatten([i \in 1..last |-> rs[i].errors]),
         calls  |-> [i \in 1..last |-> rs[i].call]]

RunFieldRules(field_rules, a, plug) ==
    LET rs == [i \in 1..Len(field_rules) |-> RunFieldRule(field_rules[i], a, plug)]
    IN  [errors |-> Flatten([i \in 1..Len(rs) |-> rs[i].errors]),
         calls  |-> [i \in 1..Len(rs) |-> rs[i].call]]

COUNTRY_PREFIXES == {"MEX", "USA", "BRA", "CAN"}

\* "No FieldMetadata" (Python None where a FieldMetadata is expected).
NoMetadata == FieldMetadata(None, None, None, FALSE, NoStr, NoInt, FALSE, NoStr)

\* str.replace('_', '.') of an identifier: no identifier of the model holds
\* a '.', so the result is a key of no index unless nothing was replaced.
Dotted(name) == IF Len(name) = 1 THEN name ELSE <<".">> \o name

RECURSIVE Unique(_)
Unique(s) ==
    IF s = <<>> THEN <<>>
    ELSE LET init == Unique(SubSeq(s, 1, Len(s) - 1))
             x    == s[Len(s)]
         IN  IF x = EmptyStr \/ x \in Range(init) THEN init ELSE Append(init, x)

\* _build_field_search_patterns
BuildFieldSearchPatterns(entity_id, field_id, column_name) ==
    LET p1 == << entity_id \o field_id >>
        p2 == IF StartsWithAny(entity_id, COUNTRY_PREFIXES)
              THEN << Tail(entity_id) \o field_id >> ELSE <<>>
        p3 == IF column_name # None /\ column_name # EmptyStr
              THEN << column_name, Dotted(column_name) >> ELSE <<>>
        p5 == IF column_name # None
                 /\ StartsWithAny(column_name, {"MEX", "USA", "BRA"})
              THEN << column_name >> ELSE <<>>
    IN  Unique(p1 \o p2 \o p3 \o p5)

FirstHit(patterns, index) ==
    LET hits == SelectSeq(patterns, LAMBDA p : DictHas(index, p))
    IN  IF hits = <<>> THEN None ELSE Head(hits)

\* The metadata lookup of _validate_row (lines 157-163).
RowLookup(mc, entity_id, field_id) ==
    IF DictHas(mc.field_by_full_path, entity_id \o field_id)
    THEN DictGet(mc.field_by_full_path, entity_id \o field_id)
    ELSE IF DictHas(mc.entities, entity_id)
            /\ DictHas(DictGet(mc.entities, entity_id).fields, field_id)
         THEN DictGet(DictGet(mc.entities, entity_id).fields, field_id)
         ELSE NoMetadata

\* The field id _validate_field works with when it got no metadata.
FallbackFieldId(column_name) ==
    IF column_name # None /\ column_name # EmptyStr
    THEN << column_name[Len(column_name)] >>
    ELSE << "unknown", "field" >>

\* The metadata search of _validate_field (lines 264-277).
FieldLookup(mc, entity_id, column_name) ==
    LET field_id == FallbackFieldId(column_name)
        hit == FirstHit(BuildFieldSearchPatterns(entity_id, field_id, column_name),
                        mc.field_by_full_path)
    IN  IF hit # None THEN DictGet(mc.field_by_full_path, hit)
        ELSE IF DictHas(mc.entities, entity_id)
                /\ DictHas(DictGet(mc.entities, entity_id).fields, field_id)
             THEN DictGet(DictGet(mc.entities, entity_id).fields, field_id)
             ELSE NoMetadata

\* The warning _validate_field emits when no metadata was found.
MissingMetadataWarning(entity_id, column_name) ==
    LET field_path == entity_id \o FallbackFieldId(column_name)
    IN  IF StartsWithAny(entity_id, COUNTRY_PREFIXES)
        THEN missing_metadata_for_field(
                 <<"CSF Field: ">> \o field_path \o <<" (not found with country prefix)">>)
        ELSE missing_metadata_for_field(field_path)

\* _get_column_name
GetColumnName(tc, entity_id, field_id) ==
    IF DictHas(tc.entities, entity_id)
       /\ DictHas(DictGet(tc.entities, entity_id).field_mapping, field_id)
    THEN DictGet(DictGet(tc.entities, entity_id).field_mapping, field_id).original_name
    ELSE None

\* _find_person_id_external_column_index (0-based), NoInt when absent.
FindPersonIdExternalColumnIndex(tc) ==
    LET hits == { i \in 1..Len(tc.parsed_columns) :
                    /\ tc.parsed_columns[i].element_id = <<"personInfo">>
                    /\ tc.parsed_columns[i].field_id = <<"person-id-external">> }
    IN  IF hits = {} THEN NoInt
        ELSE (CHOOSE i \in hits : \A j \in hits : i <= j) - 1

\* The business identifier _validate_row reads from raw_values.
PersonIdExternal(tc, row) ==
    LET col_index == FindPersonIdExternalColumnIndex(tc)
    IN  IF col_index = NoInt \/ col_index >= Len(row.raw_values) THEN None
        ELSE IF Strip(row.raw_values[col_index + 1]) = <<>> THEN None
             ELSE Strip(row.raw_values[col_index + 1])

\* The (entity_id, field_id, value) triples of a row in the order
\* row.data_by_entity.items() / entity_data.items() yield them.
RowTriples(row) ==
    Flatten([i \in 1..Len(row.data_by_entity) |->
                LET e == row.data_by_entity[i]
                IN  [j \in 1..Len(e.v) |->
                        [entity_id |-> e.k, field_id |-> e.v[j].k, value |-> e.v[j].v]]])

\* Variant: a triple without metadata is passed over silently.
ValidateFieldSilent(t, row, tc, mc, field_rules, plug) ==
    LET first == RowLookup(mc, t.entity_id, t.field_id)
        column_name == GetColumnName(tc, t.entity_id, t.field_id)
        fm == IF first # NoMetadata THEN first
              ELSE FieldLookup(mc, t.entity_id, column_name)
        a  == FieldArgs(t.entity_id, fm, t.value, row.original_row_index,
                        row.csv_row_index, column_name, PersonIdExternal(tc, row))
        rr == RunFieldRules(field_rules, a, plug)
    IN  IF fm = NoMetadata
        THEN [errors |-> <<>>, calls |-> <<>>, fm |-> fm]
        ELSE [errors |-> rr.errors, calls |-> rr.calls, fm |-> fm]

\* The body of _validate_row's inner loop for one triple, through
\* _validate_field: the errors, the rules it went through and the metadata
\* it resolved (NoMetadata when none).
ValidateField(t, row, tc, mc, field_rules, plug) ==
    LET first == RowLookup(mc, t.entity_id, t.field_id)
        column_name == GetColumnName(tc, t.entity_id, t.field_id)
        fm == IF first # NoMetadata THEN first
              ELSE FieldLookup(mc, t.entity_id, column_name)
        a  == FieldArgs(t.entity_id, fm, t.value, row.original_row_index,
                        row.csv_row_index, column_name, PersonIdExternal(tc, row))
        rr == RunFieldRules(field_rules, a, plug)
    IN  IF fm = NoMetadata
        THEN [errors |-> << MissingMetadataWarning(t.entity_id, column_name) >>,
              calls |-> <<>>, fm |-> fm]
        ELSE [errors |-> rr.errors, calls |-> rr.calls, fm |-> fm]

\* One pass of _execute_global_rules / _execute_entity_rules over one rule:
\* [raised, errors] of rule.validate(context).
ValidateContextRule(rule_id, tc, mc, plug) ==
    CASE rule_id = "required_columns" ->
            [raised |-> FALSE, errors |-> RequiredColumnValidate(tc, mc)]
      [] rule_id = "plugin_global" ->
            [raised |-> plug.global = "raise",
             errors |-> IF plug.global = "error" THEN << PluginGlobalError >> ELSE <<>>]
      [] OTHER -> [raised |-> FALSE, errors |-> <<>>]

\* The try/except around one GLOBAL or ENTITY rule.
RunContextRule(rule_id, tc, mc, plug) ==
    LET r == ValidateContextRule(rule_id, tc, mc, plug)
    IN  IF r.raised THEN << rule_execution_failed(rule_id) >> ELSE r.errors

\* _validate_row: one result of ValidateField per triple, in order.
ValidateRow(row, tc, mc, field_rules, plug) ==
    LET ts == RowTriples(row)
    IN  [j \in 1..Len(ts) |-> ValidateField(ts[j], row, tc, mc, field_rules, plug)]

\* The error list validate_batch returns for a batch.
ValidateBatchErrors(batch_rows, tc, mc, eng, plug) ==
    Flatten([i \in 1..Len(eng.global_rules) |->
                RunContextRule(eng.global_rules[i], tc, mc, plug)])
    \o Flatten([i \in 1..Len(eng.entity_rules) |->
                RunContextRule(eng.entity_rules[i], tc, mc, plug)])
    \o Flatten([r \in 1..Len(batch_rows) |->
                LET vs == ValidateRow(batch_rows[r], tc, mc, eng.field_rules, plug)
                IN  Flatten([j \in 1..Len(vs) |-> vs[j].errors])])

\* ----------------------------------------------------------- CSV loader
\* A file is [columns, body]: the header row (physical row 0) and the rows
\* after it; body[k] is physical row k, body[1] being the label row.
NormalizedError(code, severity, row_index) ==
    [code |-> code, severity |-> severity, row_index |-> row_index]

row_column_mismatch(row_index) ==
    NormalizedError("ROW_COLUMN_COUNT_MISMATCH", "ERROR", row_index)

\* _validate_header_row: the code of the first violation, NoStr when valid.
ValidateHeaderRow(header_row) ==
    LET bad(i) == \/ header_row[i] = EmptyStr
                  \/ \E j \in 1..(i - 1) : header_row[j] = header_row[i]
                  \/ Len(header_row[i]) < 2
        first == CHOOSE i \in 1..Len(header_row) :
                     bad(i) /\ \A j \in 1..(i - 1) : ~bad(j)
    IN  IF header_row = <<>> THEN "MISSING_HEADER_ROW"
        ELSE IF \A i \in 1..Len(header_row) : ~bad(i) THEN NoStr
        ELSE IF header_row[first] = EmptyStr THEN "EMPTY_COLUMN_NAME"
        ELSE IF \E j \in 1..(first - 1) : header_row[j] = header_row[first]
             THEN "DUPLICATED_COLUMN"
             ELSE "INVALID_COLUMN_IDENTIFIER"

\* Variant: row 2 is taken as the label row only when it has the header's
\* column count; otherwise the data starts at row 2 (index 1).
DetectStructureByContent(f) ==
    LET total == Len(f.columns)
        labelled == Len(f.body) >= 1 /\ Len(f.body[1]) = total
    IN  [error |-> ValidateHeaderRow(f.columns),
         context |-> [columns |-> f.columns, total_columns |-> total,
                      label_row_present |-> labelled,
                      data_start_index |-> IF labelled THEN 2 ELSE 1,
                      errors |-> <<>>]]

\* detect_structure: [error, context]; error is NoStr on success.
DetectStructure(f) ==
    LET total == Len(f.columns)
        label_errors ==
            IF Len(f.body) >= 1 /\ Len(f.body[1]) # total
            THEN << NormalizedError("LABEL_COLUMN_MISMATCH", "ERROR", 1) >> ELSE <<>>
        data_errors ==
            IF Len(f.body) >= 2
            THEN IF Len(f.body[2]) # total THEN << row_column_mismatch(2) >> ELSE <<>>
            ELSE << NormalizedError("NO_DATA_ROWS", "WARNING", NoInt) >>
    IN  [error |-> ValidateHeaderRow(f.columns),
         context |-> [columns |-> f.columns, total_columns |-> total,
                      label_row_present |-> TRUE, data_start_index |-> 2,
                      errors |-> label_errors \o data_errors]]

\* The frame of batch_generator: the next row to read (an index of body),
\* row_index, the closure variables batch and errors, and where it stands:
\* "created", "yielded" (suspended at the yield inside the loop),
\* "final" (suspended at the yield after the loop) or "exhausted".
NewReader ==
    [pos |-> 0, row_index |-> 0, batch |-> <<>>, errors |-> <<>>,
     status |-> "created"]

\* The for loop of batch_generator, up to its next yield or its end.
RECURSIVE ReaderLoop(_, _, _)
ReaderLoop(rd, body, total_columns) ==
    IF rd.pos > Len(body)
    THEN [rd EXCEPT !.status = IF rd.batch # <<>> THEN "final" ELSE "exhausted"]
    ELSE IF Len(body[rd.pos]) # total_columns
    THEN ReaderLoop([rd EXCEPT !.errors = Append(@, row_column_mismatch(rd.row_index)),
                               !.row_index = @ + 1, !.pos = @ + 1],
                    body, total_columns)
    ELSE IF Len(rd.batch) + 1 >= BATCH_SIZE
    THEN [rd EXCEPT !.batch = Append(@, body[rd.pos]), !.pos = @ + 1,
                    !.status = "yielded"]
    ELSE ReaderLoop([rd EXCEPT !.batch = Append(@, body[rd.pos]),
                               !.row_index = @ + 1, !.pos = @ + 1],
                    body, total_columns)

\* Variant: the batch is not emptied after it was yielded.
ResumeReaderKeepBatch(rd, f, ctx) ==
    CASE rd.status = "created" ->
            ReaderLoop([rd EXCEPT !.pos = ctx.data_start_index,
                                  !.row_index = ctx.data_start_index],
                       f.body, ctx.total_columns)
      [] rd.status = "yielded" ->
            ReaderLoop([rd EXCEPT !.row_index = @ + 1], f.body, ctx.total_columns)
      [] OTHER -> [rd EXCEPT !.status = "exhausted"]

\* next(batch_generator): the frame after running to the next yield or to the
\* end; the batch it yields is the frame's batch.
ResumeReader(rd, f, ctx) ==
    CASE rd.status = "created" ->
            ReaderLoop([rd EXCEPT !.pos = ctx.data_start_index,
                                  !.row_index = ctx.data_start_index],
                       f.body, ctx.total_columns)
      [] rd.status = "yielded" ->
            ReaderLoop([rd EXCEPT !.batch = <<>>, !.row_index = @ + 1],
                       f.body, ctx.total_columns)
      [] OTHER -> [rd EXCEPT !.status = "exhausted"]

\* ------------------------------------------------------------ reporting
\* sub in x
Contains(x, sub) ==
    \E i \in 1..(Len(x) - Len(sub) + 1) : SubSeq(x, i, i + Len(sub) - 1) = sub

StartsWith(x, prefix) ==
    Len(x) >= Len(prefix) /\ SubSeq(x, 1, Len(prefix)) = prefix

\* str(severity) of a ValidationSeverity member.
SeverityStr(severity) == "ValidationSeverity." \o severity

\* Variant: only ERROR is reported at level ERROR.
ReportLevelErrorOnly(severity) ==
    IF severity = NoStr THEN "INFO"
    ELSE IF severity = "ERROR" THEN "ERROR"
    ELSE IF severity = "WARNING" THEN "WARNING" ELSE "INFO"

\* The level _convert_errors_to_entries gives to a severity (NoStr: the
\* error has none).
ReportLevel(severity) ==
    IF severity = NoStr THEN "INFO"
    ELSE IF Contains(SeverityStr(severity), "ERROR")
            \/ Contains(SeverityStr(severity), "FATAL") THEN "ERROR"
    ELSE IF Contains(SeverityStr(severity), "WARNING") THEN "WARNING"
    ELSE "INFO"

\* ReportEntry built by _convert_errors_to_entries (message text left out).
ReportEntry(error) ==
    [identificador |-> error.person_id_external, field_id |-> error.field_id,
     column_name |-> error.column_name, error_code |-> error.code,
     level |-> ReportLevel(error.severity),
     expected |-> error.expected, actual |-> error.actual,
     metadata_path |-> error.metadata_path]

ConvertErrorsToEntries(validation_errors) ==
    [i \in 1..Len(validation_errors) |-> ReportEntry(validation_errors[i])]

\* create_report: the errors of all batch results, in order.
AllErrors(results) == Flatten([i \in 1..Len(results) |-> results[i].errors])

CreateReportEntries(results) == ConvertErrorsToEntries(AllErrors(results))

\* counts[key] = counts.get(key, 0) + 1
CountInto(counts, key) ==
    DictPut(counts, key, (IF DictHas(counts, key) THEN DictGet(counts, key) ELSE 0) + 1)

NewMetrics ==
    [total_rows |-> 0, total_batches |-> 0, total_errors |-> 0, total_warnings |-> 0,
     error_counts |-> <<>>, identificador_counts |-> <<>>, severity_counts |-> <<>>]

\* One iteration of the loop over all_errors in _calculate_metrics.
CountError(metrics, error) ==
    LET by_severity ==
            IF error.severity = NoStr THEN metrics
            ELSE [metrics EXCEPT
                    !.severity_counts = CountInto(@, error.severity),
                    !.total_errors =
                        IF error.severity \in {"ERROR", "FATAL"} THEN @ + 1 ELSE @,
                    !.total_warnings =
                        IF error.severity = "WARNING" THEN @ + 1 ELSE @]
    IN  [by_severity EXCEPT
            !.error_counts = CountInto(@, error.code),
            !.identificador_counts = CountInto(@, <<"personInfo", "person-id-external">>)]

RECURSIVE CountErrors(_, _)
CountErrors(metrics, errors) ==
    IF errors = <<>> THEN metrics
    ELSE CountErrors(CountError(metrics, Head(errors)), Tail(errors))

\* _calculate_metrics (validation_time, a sum of durations, left out).
CalculateMetrics(results) ==
    CountErrors([NewMetrics EXCEPT
                    !.total_batches = Len(results),
                    !.total_rows = SeqSum([i \in 1..Len(results) |->
                                              results[i].processed_rows])],
                AllErrors(results))

\* sorted(items, key=count, reverse=True): stable, larger counts first.
RECURSIVE SortByCountDesc(_)
SortByCountDesc(items) ==
    IF items = <<>> THEN <<>>
    ELSE LET top == CHOOSE i \in 1..Len(items) :
                        /\ \A j \in 1..Len(items) : items[j].v <= items[i].v
                        /\ \A j \in 1..(i - 1) : items[j].v < items[i].v
         IN  << items[top] >>
             \o SortByCountDesc(SubSeq(items, 1, top - 1)
                                \o SubSeq(items, top + 1, Len(items)))

\* _generate_summary: the text, as what it says.
GenerateSummary(metrics) ==
    LET sorted == SortByCountDesc(metrics.error_counts)
    IN  [clean |-> metrics.total_errors = 0 /\ metrics.total_warnings = 0,
         errors |-> metrics.total_errors, warnings |-> metrics.total_warnings,
         top_errors |-> IF metrics.total_errors = 0 /\ metrics.total_warnings = 0
                        THEN <<>>
                        ELSE SubSeq(sorted, 1, IF Len(sorted) < 3 THEN Len(sorted) ELSE 3)]

\* Clock readings per second: strftime("%Y%m%d_%H%M%S") keeps whole seconds.
TicksPerSecond == 2

\* now.strftime("%Y%m%d_%H%M%S")
Timestamp(now) == ToString(now \div TicksPerSecond)

\* ReportAggregator.create_report
CreateReport(results, now) ==
    [report_id |-> "validation_" \o Timestamp(now), timestamp |-> now,
     entries |-> CreateReportEntries(results),
     metrics |-> CalculateMetrics(results),
     summary |-> GenerateSummary(CalculateMetrics(results))]

\* ReportingOrchestrator.formatters: format_name -> file_extension.
FORMATTERS ==
    << [k |-> "json", v |-> ".json"], [k |-> "csv", v |-> ".csv"] >>

\* formatter.format(report): the text of the file, as what it holds.
FormatReport(report, format_name) ==
    IF format_name = "json"
    THEN [format |-> "json", report_id |-> report.report_id,
          timestamp |-> report.timestamp, summary |-> report.summary,
          entries |-> report.entries, metrics |-> report.metrics]
    ELSE [format |-> "csv", report_id |-> NoStr, timestamp |-> NoInt,
          summary |-> GenerateSummary(NewMetrics),
          entries |-> report.entries, metrics |-> NewMetrics]

\* export_to_file: the path of the file it writes.
ExportPath(report, output_dir, base_filename, file_extension) ==
    output_dir \o "/" \o base_filename \o "_" \o Timestamp(report.timestamp)
               \o file_extension

\* Variant: the export stops at the first format that fails.
RECURSIVE ExportUntilFailure(_, _, _, _, _, _)
ExportUntilFailure(report, formatters, output_dir, base_filename, broken, acc) ==
    IF formatters = <<>> THEN acc
    ELSE LET format_name == Head(formatters)
             filepath == ExportPath(report, output_dir, base_filename,
                                    DictGet(FORMATTERS, format_name))
         IN  IF format_name \in broken
             THEN [results |-> DictPut(acc.results, format_name, "ERROR: " \o format_name),
                   files |-> acc.files]
             ELSE ExportUntilFailure(
                     report, Tail(formatters), output_dir, base_filename, broken,
                     [results |-> DictPut(acc.results, format_name, filepath),
                      files |-> DictPut(acc.files, filepath,
                                        FormatReport(report, format_name))])

\* export_multiple_formats, from the results and files so far: broken holds
\* the formats whose formatting or writing raises.
RECURSIVE ExportMultipleFormats(_, _, _, _, _, _)
ExportMultipleFormats(report, formatters, output_dir, base_filename, broken, acc) ==
    IF formatters = <<>> THEN acc
    ELSE LET format_name == Head(formatters)
             filepath == ExportPath(report, output_dir, base_filename,
                                    DictGet(FORMATTERS, format_name))
         IN  ExportMultipleFormats(
                 report, Tail(formatters), output_dir, base_filename, broken,
                 IF format_name \in broken
                 THEN [results |-> DictPut(acc.results, format_name,
                                           "ERROR: " \o format_name),
                       files |-> acc.files]
                 ELSE [results |-> DictPut(acc.results, format_name, filepath),
                       files |-> DictPut(acc.files, filepath,
                                         FormatReport(report, format_name))])

\* export_report: the formatters of the supported formats, in the order
\* asked for; with none of them it raises.
SelectedFormatters(formats) ==
    SelectSeq(formats, LAMBDA format_name : DictHas(FORMATTERS, format_name))

ExportReport(report, output_dir, base_filename, formats, broken, files) ==
    IF SelectedFormatters(formats) = <<>>
    THEN [raised |-> TRUE, results |-> <<>>, files |-> files]
    ELSE LET e == ExportMultipleFormats(report, SelectedFormatters(formats), output_dir,
                                        base_filename, broken,
                                        [results |-> <<>>, files |-> files])
         IN  [raised |-> FALSE, results |-> e.results, files |-> e.files]

NoReport ==
    [report_id |-> NoStr, timestamp |-> NoInt, entries |-> <<>>,
     metrics |-> NewMetrics, summary |-> GenerateSummary(NewMetrics)]

\* generate_and_export: what it returns (or that it raised) and the files
\* of the output directory afterwards.
GenerateAndExport(results, now, output_dir, base_filename, formats, broken, files) ==
    LET report == CreateReport(results, now)
        e == ExportReport(report, output_dir, base_filename, formats, broken, files)
    IN  [returned |-> ~e.raised, report |-> report, filepaths |-> e.results,
         report_id |-> report.report_id, summary |-> report.summary,
         files |-> e.files]

\* --------------------------------------------------------------- inputs
\* Schema tree nodes, in pre-order.
RootNode ==
    [tag |-> "succession-data-model", technical_id |-> None, node_type |-> "document",
     origin |-> NoStr, country |-> NoStr, required |-> FALSE, type |-> NoStr,
     max_length |-> None]

ElementNode(id, origin, country) ==
    [tag |-> "hris-element", technical_id |-> id, node_type |-> "element",
     origin |-> origin, country |-> country, required |-> FALSE, type |-> NoStr,
     max_length |-> None]

FieldNode(id, required, type, max_length) ==
    [tag |-> "hris-field", technical_id |-> id, node_type |-> "field",
     origin |-> NoStr, country |-> NoStr, required |-> required, type |-> type,
     max_length |-> max_length]

\* A node whose tag is None: node_tag.lower() raises on it.
MalformedNode ==
    [tag |-> NoStr, technical_id |-> None, node_type |-> NoStr,
     origin |-> NoStr, country |-> NoStr, required |-> FALSE, type |-> NoStr,
     max_length |-> None]

\* No document stored for the instance and version: _load_parsed_metadata
\* returns None.
NoSchema == <<>>

PID == <<"personInfo", "person-id-external">>

PersonInfoNodes ==
    << ElementNode(<<"personInfo">>, "sdm", NoStr),
       FieldNode(<<"person-id-external">>, TRUE, "string", None) >>

\* A header paired with the schema it is validated against.
\*  1: plain element; a required column (last-name) is absent from the header
\*  2: one country-scoped element
\*  3: the same element declared for two countries
\*  4: a column of an entity the schema does not know; an integer field
\*  5: a header cell without '_'
Scenarios ==
    << [columns |-> << PID, <<"personInfo", "first-name">> >>,
        schema  |-> << RootNode >> \o PersonInfoNodes \o
                    << FieldNode(<<"first-name">>, TRUE, "string", <<"2">>),
                       FieldNode(<<"last-name">>, TRUE, NoStr, None) >>],
       [columns |-> << PID, <<"MEX", "homeAddress", "street">> >>,
        schema  |-> << RootNode >> \o PersonInfoNodes \o
                    << ElementNode(<<"homeAddress">>, "csf", "MEX"),
                       FieldNode(<<"street">>, TRUE, "string", <<"2">>) >>],
       [columns |-> << PID, <<"MEX", "homeAddress", "street">> >>,
        schema  |-> << RootNode >> \o PersonInfoNodes \o
                    << ElementNode(<<"homeAddress">>, "csf", "MEX"),
                       FieldNode(<<"street">>, TRUE, "string", <<"2">>),
                       ElementNode(<<"homeAddress">>, "csf", "USA"),
                       FieldNode(<<"street">>, FALSE, "string", None),
                       FieldNode(<<"city">>, TRUE, "string", None) >>],
       [columns |-> << <<"jobInfo", "title">>, PID >>,
        schema  |-> << RootNode,
                       ElementNode(<<"personInfo">>, "sdm", NoStr),
                       FieldNode(<<"person-id-external">>, FALSE, "integer", <<" ", "1", " ">>) >>],
       [columns |-> << PID, <<"badcolumn">> >>,
        schema  |-> << RootNode >> \o PersonInfoNodes],
       [columns |-> << PID, <<"personInfo", "first-name">> >>,
        schema  |-> NoSchema],
       [columns |-> << PID, <<"personInfo", "first-name">> >>,
        schema  |-> << RootNode, MalformedNode >> \o PersonInfoNodes] >>

\* Candidate data rows (cells are character sequences); the last one is a
\* cell short of the two-column headers.
RowPool ==
    { << <<"7">>, <<"7">> >>,
      << <<"7">>, <<"a", "b", "c">> >>,
      << <<"x">>, <<" ">> >>,
      << <<>>, <<>> >>,
      << <<"7">> >> }

LabelRow == << <<"L">>, <<"L">> >>

SeqsUpTo(S, n) == UNION { [1..k -> S] : k \in 0..n }

\* The rows after the header: nothing, or a label row and up to MaxRows rows.
Bodies == { <<>> } \cup { << LabelRow >> \o d : d \in SeqsUpTo(RowPool, MaxRows) }

\* The scenarios run on every body; the other ones on bodies of up to
\* MaxShortRows rows.
FullScenarios == {1, 4}

MaxShortRows == 2

ShortBodies ==
    { <<>> } \cup { << LabelRow >> \o d : d \in SeqsUpTo(RowPool, MaxShortRows) }

ScenarioBodies(s) == IF s \in FullScenarios THEN Bodies ELSE ShortBodies

\* What the plug-in rules of a run do.
PlugSet ==
    { NoPlug,
      [global |-> "error", phase |-> "validate", trigger |-> <<"7">>],
      [global |-> "raise", phase |-> "should_skip", trigger |-> <<"7">>],
      [global |-> "error", phase |-> "should_skip", trigger |-> <<"a", "b", "c">>],
      [global |-> "raise", phase |-> "validate", trigger |-> <<"a", "b", "c">>] }

\* Scenarios and raw batches validate_batch is called with directly.
EngineScenarios == { 1, 4 }

EngineBatches ==
    { << << <<"7">>, <<"7">> >>, << <<"7">>, <<"a", "b", "c">> >> >>,
      << << <<"7">>, <<"a", "b", "c">> >>, << <<>>, <<" ">> >> >>,
      << << <<"x">>, <<"7">> >> >> }

\* Largest number of configure_rule calls in a run.
MaxConfigOps == 1

\* ---------------------------------------------------------------- state
VARIABLES
    file,              \* the Golden Record file [columns, body]
    schema,            \* the parsed schema tree (pre-order nodes)
    pc,                \* where the run stands
    ret,               \* where validate_batch returns to
    csv_context,       \* CsvContext
    reader,            \* the frame of csv_context.data_stream
    trans_context,     \* TransformationContext
    metadata_context,  \* ValidationContext.metadata_context
    raw_batch,         \* the batch last pulled from the stream
    transformed_rows,  \* the batch validate_batch works on
    batch_index,
    batch_results,     \* BatchValidationResult's so far
    registry,          \* RuleRegistry
    engine,            \* RuleEngine (its three rule lists)
    plug,              \* what the plug-in rules do
    config_ops,        \* configure_rule calls so far
    row_cursor,        \* rows of the batch validated so far
    all_errors,        \* all_errors of the running validate_batch
    results,           \* the dict execute_validation returns
    yielded,           \* history: the batches the stream has yielded
    trace,             \* history: the rule runs of the running validate_batch
    raw_file,          \* the file of a direct call of detect_structure, as text
    detected,          \* what that call returned
    column_name,       \* the argument of a direct call of parse_column
    parsed_column,     \* what that call returned
    clock,             \* datetime.now(), in clock readings
    fs,                \* the files of the output directory: path -> content
    runs,              \* the frames of concurrently executing runs
    report_formats,    \* the report_formats argument of the run
    report_results,    \* what generate_and_export returned
    export_broken      \* the formats whose formatting or writing raises

vars ==
    << file, schema, pc, ret, csv_context, reader, trans_context, metadata_context,
       raw_batch, transformed_rows, batch_index, batch_results, registry, engine,
       plug, config_ops, row_cursor, all_errors, results, yielded, trace,
       raw_file, detected, column_name, parsed_column, clock, fs, runs, report_formats,
       report_results, export_broken >>

\* The variables of the direct calls, of the concurrent runs, and of step 6.
unitVars == << raw_file, detected, column_name, parsed_column >>

runVars == << clock, fs, runs >>

reportVars == << report_formats, report_results, export_broken >>

NoCsvContext ==
    [columns |-> <<>>, total_columns |-> 0, label_row_present |-> FALSE,
     data_start_index |-> 0, errors |-> <<>>]

NoTransContext ==
    [parsed_columns |-> <<>>, entities |-> <<>>, column_to_entity_map |-> <<>>]

NoEngine == [global_rules |-> <<>>, entity_rules |-> <<>>, field_rules |-> <<>>]

\* The value of results["report"]: None, or the JSON file read back.
NoJsonReport == [loaded |-> FALSE, content |-> FormatReport(NoReport, "json")]

\* The value of results["summary"]: the empty dict, or the report's text.
EmptySummary == [is_text |-> FALSE, text |-> NoReport.summary]

\* results as execute_validation initialises it (the echoes of the
\* arguments and the start and end times are left out).
NewResults(now) ==
    [execution_id |-> Timestamp(now), success |-> FALSE, errors |-> <<>>,
     warnings |-> <<>>, report |-> NoJsonReport, summary |-> EmptySummary]

\* Nothing returned yet by detect_structure / generate_and_export.
NoDetected == [called |-> FALSE, error |-> NoStr, context |-> NoCsvContext]

NoRawFile == [header |-> <<>>, body |-> <<>>]

NoParsed == [called |-> FALSE, ok |-> FALSE, col |-> NoColumn]

NoReportResults ==
    [returned |-> FALSE, report |-> NoReport, filepaths |-> <<>>,
     report_id |-> NoStr, summary |-> NoReport.summary]

InitCommon ==
    /\ transformed_rows = <<>>
    /\ registry = NewRegistry
    /\ engine = NoEngine
    /\ config_ops = 0
    /\ row_cursor = 0
    /\ all_errors = <<>>
    /\ results = NewResults(0)
    /\ yielded = <<>>
    /\ trace = <<>>
    /\ reader = NewReader
    /\ detected = NoDetected
    /\ parsed_column = NoParsed
    /\ fs = <<>>
    /\ runs = <<>>
    /\ report_formats = <<>>
    /\ report_results = NoReportResults
    /\ export_broken = {}

\* execute_validation is entered with a file and a schema version.
Init ==
    /\ \E s \in 1..Len(Scenarios) : \E b \in ScenarioBodies(s) :
          /\ file = [columns |-> Scenarios[s].columns, body |-> b]
          /\ schema = Scenarios[s].schema
    /\ pc = "load_csv"
    /\ ret = "stream"
    /\ csv_context = NoCsvContext
    /\ trans_context = NoTransContext
    /\ metadata_context = EmptyMetadataContext
    /\ plug = NoPlug
    /\ raw_file = NoRawFile
    /\ column_name = ""
    /\ batch_results = <<>>
    /\ clock = 0
    /\ raw_batch = <<>>
    /\ batch_index = 0
    /\ InitCommon

\* The except/finally of execute_validation: record the reason, return.
Abort(reason) ==
    /\ results' = [results EXCEPT !.errors = Append(@, reason)]
    /\ pc' = "done"

\* Step 1: CsvLoader.load_csv and the warnings copied from its context.
LoadCsv ==
    /\ pc = "load_csv"
    /\ LET d   == DetectStructure(file)
           \* context.errors.extend(read_errors): the reader has not run yet
           ctx == [d.context EXCEPT !.errors = @ \o NewReader.errors]
       IN  IF d.error # NoStr
           THEN /\ Abort("csv")
                /\ UNCHANGED << csv_context, reader >>
           ELSE /\ csv_context' = ctx
                /\ reader' = NewReader
                /\ results' = [results EXCEPT !.warnings =
                                  @ \o [i \in 1..Len(ctx.errors) |->
                                          [module |-> "csv_loader",
                                           code |-> ctx.errors[i].code]]]
                /\ pc' = "load_metadata"
    /\ UNCHANGED << file, schema, ret, trans_context, metadata_context, raw_batch,
                    transformed_rows, batch_index, batch_results, registry, engine,
                    plug, config_ops, row_cursor, all_errors, yielded, trace >>
    /\ UNCHANGED << unitVars, runVars, reportVars >>

\* Step 2: _load_parsed_metadata.
LoadParsedMetadata ==
    /\ pc = "load_metadata"
    /\ IF schema = NoSchema THEN Abort("metadata")
       ELSE pc' = "transform" /\ UNCHANGED results
    /\ UNCHANGED << file, schema, ret, csv_context, reader, trans_context,
                    metadata_context, raw_batch, transformed_rows, batch_index,
                    batch_results, registry, engine, plug, config_ops, row_cursor,
                    all_errors, yielded, trace >>
    /\ UNCHANGED << unitVars, runVars, reportVars >>

\* Step 3: TransformOrchestrator.transform_csv_context.
TransformCsv ==
    /\ pc = "transform"
    /\ IF csv_context.columns = <<>>
       THEN Abort("transform") /\ UNCHANGED trans_context
       ELSE /\ trans_context' = TransformCsvContext(csv_context.columns)
            /\ pc' = "context"
            /\ UNCHANGED results
    /\ UNCHANGED << file, schema, ret, csv_context, reader, metadata_context,
                    raw_batch, transformed_rows, batch_index, batch_results, registry,
                    engine, plug, config_ops, row_cursor, all_errors, yielded, trace >>
    /\ UNCHANGED << unitVars, runVars, reportVars >>

\* Variant: a failed adaptation is ignored and the run goes on with the
\* metadata collected so far.
CreateValidationContextLenient ==
    /\ pc = "context"
    /\ metadata_context' =
          AdaptParsedMetadata(SelectSeq(schema, LAMBDA node : node.tag # NoStr))
    /\ pc' = "stream"
    /\ UNCHANGED << file, schema, ret, csv_context, reader, trans_context, raw_batch,
                    transformed_rows, batch_index, batch_results, registry, engine,
                    plug, config_ops, row_cursor, all_errors, results, yielded, trace >>
    /\ UNCHANGED << unitVars, runVars, reportVars >>

\* Step 4: ComparatorOrchestrator.create_validation_context.  An exception in
\* adapt_parsed_metadata makes the error context, whose stats["error"] makes
\* create_validation_context return an error.
CreateValidationContext ==
    /\ pc = "context"
    /\ IF AdaptationRaises(schema)
       THEN Abort("context") /\ UNCHANGED metadata_context
       ELSE /\ metadata_context' = AdaptParsedMetadata(schema)
            /\ pc' = "stream"
            /\ UNCHANGED results
    /\ UNCHANGED << file, schema, ret, csv_context, reader, trans_context, raw_batch,
                    transformed_rows, batch_index, batch_results, registry, engine,
                    plug, config_ops, row_cursor, all_errors, yielded, trace >>
    /\ UNCHANGED << unitVars, runVars, reportVars >>

\* for raw_batch in data_stream: the stream yields a batch.
NextBatch ==
    /\ pc = "stream"
    /\ LET rd == ResumeReader(reader, file, csv_context)
       IN  /\ rd.status # "exhausted"
           /\ reader' = rd
           /\ raw_batch' = rd.batch
           /\ yielded' = Append(yielded, rd.batch)
    /\ pc' = "transform_batch"
    /\ UNCHANGED << file, schema, ret, csv_context, trans_context, metadata_context,
                    transformed_rows, batch_index, batch_results, registry, engine,
                    plug, config_ops, row_cursor, all_errors, results, trace >>
    /\ UNCHANGED << unitVars, runVars, reportVars >>

\* for raw_batch in data_stream: the stream ends.
StreamExhausted ==
    /\ pc = "stream"
    /\ LET rd == ResumeReader(reader, file, csv_context)
       IN  /\ rd.status = "exhausted"
           /\ reader' = rd
    /\ pc' = "report"
    /\ UNCHANGED << file, schema, ret, csv_context, trans_context, metadata_context,
                    raw_batch, transformed_rows, batch_index, batch_results, registry,
                    engine, plug, config_ops, row_cursor, all_errors, results,
                    yielded, trace >>
    /\ UNCHANGED << unitVars, runVars, reportVars >>

\* Variant: the batch is transformed and the next one is pulled at once, the
\* validation left for later.
TransformRawBatchThenPull ==
    /\ pc = "transform_batch"
    /\ transformed_rows' =
          TransformBatch(raw_batch, batch_index, csv_context.data_start_index,
                         trans_context.column_to_entity_map, trans_context.entities)
    /\ pc' = "stream"
    /\ UNCHANGED << file, schema, ret, csv_context, reader, trans_context,
                    metadata_context, raw_batch, batch_index, batch_results, registry,
                    engine, plug, config_ops, row_cursor, all_errors, results,
                    yielded, trace >>
    /\ UNCHANGED << unitVars, runVars, reportVars >>

\* trans_context.transform_batch(raw_batch, batch_index)
TransformRawBatch ==
    /\ pc = "transform_batch"
    /\ transformed_rows' =
          TransformBatch(raw_batch, batch_index, csv_context.data_start_index,
                         trans_context.column_to_entity_map, trans_context.entities)
    /\ pc' = "validate"
    /\ UNCHANGED << file, schema, ret, csv_context, reader, trans_context,
                    metadata_context, raw_batch, batch_index, batch_results, registry,
                    engine, plug, config_ops, row_cursor, all_errors, results,
                    yielded, trace >>
    /\ UNCHANGED << unitVars, runVars, reportVars >>

\* _validate_batch_directly: a new registry and engine, then validate_batch.
ValidateBatchDirectly ==
    /\ pc = "validate"
    /\ registry' = NewRegistry
    /\ engine' = NewRuleEngine(NewRegistry)
    /\ all_errors' = <<>>
    /\ trace' = <<>>
    /\ row_cursor' = 0
    /\ ret' = "stream"
    /\ pc' = "global"
    /\ UNCHANGED << file, schema, csv_context, reader, trans_context, metadata_context,
                    raw_batch, transformed_rows, batch_index, batch_results, plug,
                    config_ops, results, yielded >>
    /\ UNCHANGED << unitVars, runVars, reportVars >>

\* An entry of the history of a validate_batch call.
RuleEvent(kind, rule_id, errors) ==
    [kind |-> kind, rule |-> rule_id, row |-> 0, triple |-> 0, errors |-> errors,
     calls |-> <<>>, fm |-> NoMetadata]

FieldEvent(row, triple, v) ==
    [kind |-> "field", rule |-> NoStr, row |-> row, triple |-> triple,
     errors |-> v.errors, calls |-> v.calls, fm |-> v.fm]

\* Variant: validate_batch goes straight to the ENTITY rules.
SkipGlobalRules ==
    /\ pc = "global"
    /\ pc' = "entity"
    /\ UNCHANGED << file, schema, ret, csv_context, reader, trans_context,
                    metadata_context, raw_batch, transformed_rows, batch_index,
                    batch_results, registry, engine, plug, config_ops, row_cursor,
                    all_errors, results, yielded, trace >>
    /\ UNCHANGED << unitVars, runVars, reportVars >>

\* validate_batch, part 1: _execute_global_rules.
ExecuteGlobalRules ==
    /\ pc = "global"
    /\ LET evs == [i \in 1..Len(engine.global_rules) |->
                      RuleEvent("global", engine.global_rules[i],
                                RunContextRule(engine.global_rules[i], trans_context,
                                               metadata_context, plug))]
       IN  /\ all_errors' = all_errors \o Flatten([i \in 1..Len(evs) |-> evs[i].errors])
           /\ trace' = trace \o evs
    /\ pc' = "entity"
    /\ UNCHANGED << file, schema, ret, csv_context, reader, trans_context,
                    metadata_context, raw_batch, transformed_rows, batch_index,
                    batch_results, registry, engine, plug, config_ops, row_cursor,
                    results, yielded >>
    /\ UNCHANGED << unitVars, runVars, reportVars >>

\* validate_batch, part 2: _execute_entity_rules.
ExecuteEntityRules ==
    /\ pc = "entity"
    /\ LET evs == [i \in 1..Len(engine.entity_rules) |->
                      RuleEvent("entity", engine.entity_rules[i],
                                RunContextRule(engine.entity_rules[i], trans_context,
                                               metadata_context, plug))]
       IN  /\ all_errors' = all_errors \o Flatten([i \in 1..Len(evs) |-> evs[i].errors])
           /\ trace' = trace \o evs
    /\ pc' = "rows"
    /\ UNCHANGED << file, schema, ret, csv_context, reader, trans_context,
                    metadata_context, raw_batch, transformed_rows, batch_index,
                    batch_results, registry, engine, plug, config_ops, row_cursor,
                    results, yielded >>
    /\ UNCHANGED << unitVars, runVars, reportVars >>

\* validate_batch, part 3: _validate_row on the next row of the batch.
ValidateNextRow ==
    /\ pc = "rows"
    /\ row_cursor < Len(transformed_rows)
    /\ LET r  == row_cursor + 1
           vs == ValidateRow(transformed_rows[r], trans_context, metadata_context,
                             engine.field_rules, plug)
       IN  /\ all_errors' = all_errors \o Flatten([j \in 1..Len(vs) |-> vs[j].errors])
           /\ trace' = trace \o [j \in 1..Len(vs) |-> FieldEvent(r, j, vs[j])]
           /\ row_cursor' = r
    /\ UNCHANGED << file, schema, pc, ret, csv_context, reader, trans_context,
                    metadata_context, raw_batch, transformed_rows, batch_index,
                    batch_results, registry, engine, plug, config_ops, results,
                    yielded >>
    /\ UNCHANGED << unitVars, runVars, reportVars >>

\* validate_batch returns its BatchValidationResult; the caller appends it
\* and moves to the next batch index.
FinishBatch ==
    /\ pc = "rows"
    /\ row_cursor = Len(transformed_rows)
    /\ batch_results' = Append(batch_results,
                               [batch_index |-> batch_index,
                                processed_rows |-> Len(transformed_rows),
                                errors |-> all_errors])
    /\ batch_index' = batch_index + 1
    /\ pc' = ret
    /\ UNCHANGED << file, schema, ret, csv_context, reader, trans_context,
                    metadata_context, raw_batch, transformed_rows, registry, engine,
                    plug, config_ops, row_cursor, all_errors, results, yielded, trace >>
    /\ UNCHANGED << unitVars, runVars, reportVars >>

\* The output directory of the run.
OUTPUT_DIR == "backend/storage/reports"

\* What a run asks of step 6 and what goes wrong there: the report_formats
\* argument and the formats whose formatting or writing fails.
ExportCases ==
    { [formats |-> << "json", "csv" >>, broken |-> {}],
      [formats |-> << "json", "csv" >>, broken |-> {"json"}],
      [formats |-> << "csv", "json" >>, broken |-> {"csv"}],
      [formats |-> << "json", "csv" >>, broken |-> {"json", "csv"}],
      [formats |-> << "xml", "csv" >>, broken |-> {}],
      [formats |-> << "summary" >>, broken |-> {}] }

\* What generate_and_export hands back to execute_validation.
Returned(rr) ==
    [returned |-> rr.returned, report |-> rr.report, filepaths |-> rr.filepaths,
     report_id |-> rr.report_id, summary |-> rr.summary]

\* The end of step 6 on the results dict: generate_and_export raised, or the
\* JSON file is read back when there is one, the summary is copied and
\* success is set.
LoadReport(res, rr, files) ==
    IF ~rr.returned
    THEN [res EXCEPT !.errors = Append(@, "report")]
    ELSE LET has_path == DictHas(rr.filepaths, "json")
             json_report_path == DictGet(rr.filepaths, "json")
             exists == has_path /\ DictHas(files, json_report_path)
         IN  [res EXCEPT
                !.report = IF exists
                           THEN [loaded |-> TRUE,
                                 content |-> DictGet(files, json_report_path)]
                           ELSE @,
                !.summary = [is_text |-> TRUE, text |-> rr.summary],
                !.success = TRUE]

\* Step 6: reporter.generate_and_export, then the end of the run.  The
\* report_formats argument is first read here.
GenerateReport ==
    /\ pc = "report"
    /\ \E c \in ExportCases :
          LET rr == GenerateAndExport(batch_results, clock, OUTPUT_DIR,
                                      "validation_" \o results.execution_id,
                                      c.formats, c.broken, fs)
          IN  /\ report_formats' = c.formats
              /\ export_broken' = c.broken
              /\ fs' = rr.files
              /\ report_results' = Returned(rr)
              /\ results' = LoadReport(results, rr, rr.files)
    /\ pc' = "done"
    /\ UNCHANGED << file, schema, ret, csv_context, reader, trans_context,
                    metadata_context, raw_batch, transformed_rows, batch_index,
                    batch_results, registry, engine, plug, config_ops, row_cursor,
                    all_errors, yielded, trace >>
    /\ UNCHANGED << unitVars, clock, runs >>

Next ==
    \/ LoadCsv
    \/ LoadParsedMetadata
    \/ TransformCsv
    \/ CreateValidationContext
    \/ NextBatch
    \/ StreamExhausted
    \/ TransformRawBatch
    \/ ValidateBatchDirectly
    \/ ExecuteGlobalRules
    \/ ExecuteEntityRules
    \/ ValidateNextRow
    \/ FinishBatch
    \/ GenerateReport

Spec == Init /\ [][Next]_vars

\* ------------------------------------------- the rule engine on its own
\* A caller that owns a registry: it registers plug-in rules, configures
\* rules, builds a RuleEngine and calls validate_batch on a batch.
InitEngine ==
    /\ \E s \in EngineScenarios :
          /\ file = [columns |-> Scenarios[s].columns, body |-> <<>>]
          /\ schema = Scenarios[s].schema
          /\ csv_context = DetectStructure([columns |-> Scenarios[s].columns,
                                            body |-> <<>>]).context
          /\ trans_context = TransformCsvContext(Scenarios[s].columns)
          /\ metadata_context = AdaptParsedMetadata(Scenarios[s].schema)
    /\ plug \in PlugSet
    /\ pc = "configure"
    /\ ret = "ready"
    /\ raw_file = NoRawFile
    /\ column_name = ""
    /\ batch_results = <<>>
    /\ clock = 0
    /\ raw_batch = <<>>
    /\ batch_index = 0
    /\ InitCommon

\* registry.register_rule(rule)
RegisterPlugin(rule_id) ==
    /\ pc = "configure"
    /\ rule_id \notin Range(registry.rule_instances)
    /\ registry' = RegisterRule(registry, rule_id)
    /\ UNCHANGED << file, schema, pc, ret, csv_context, reader, trans_context,
                    metadata_context, raw_batch, transformed_rows, batch_index,
                    batch_results, engine, plug, config_ops, row_cursor, all_errors,
                    results, yielded, trace >>
    /\ UNCHANGED << unitVars, runVars, reportVars >>

\* registry.configure_rule(rule_id, enabled=...)
Configure(rule_id, enabled) ==
    /\ pc \in {"configure", "ready"}
    /\ config_ops < MaxConfigOps
    /\ rule_id \in Range(registry.rule_instances)
    /\ registry' = ConfigureRule(registry, rule_id, enabled)
    /\ config_ops' = config_ops + 1
    /\ UNCHANGED << file, schema, pc, ret, csv_context, reader, trans_context,
                    metadata_context, raw_batch, transformed_rows, batch_index,
                    batch_results, engine, plug, row_cursor, all_errors, results,
                    yielded, trace >>
    /\ UNCHANGED << unitVars, runVars, reportVars >>

\* RuleEngine(registry)
BuildEngine ==
    /\ pc = "configure"
    /\ engine' = NewRuleEngine(registry)
    /\ pc' = "ready"
    /\ UNCHANGED << file, schema, ret, csv_context, reader, trans_context,
                    metadata_context, raw_batch, transformed_rows, batch_index,
                    batch_results, registry, plug, config_ops, row_cursor, all_errors,
                    results, yielded, trace >>
    /\ UNCHANGED << unitVars, runVars, reportVars >>

\* engine.validate_batch(batch_rows, batch_index, context) is entered.
CallValidateBatch(rows) ==
    /\ pc = "ready"
    /\ batch_results = <<>>
    /\ raw_batch' = rows
    /\ transformed_rows' =
          TransformBatch(rows, batch_index, csv_context.data_start_index,
                         trans_context.column_to_entity_map, trans_context.entities)
    /\ all_errors' = <<>>
    /\ trace' = <<>>
    /\ row_cursor' = 0
    /\ ret' = "ready"
    /\ pc' = "global"
    /\ UNCHANGED << file, schema, csv_context, reader, trans_context, metadata_context,
                    batch_index, batch_results, registry, engine, plug, config_ops,
                    results, yielded >>
    /\ UNCHANGED << unitVars, runVars, reportVars >>

NextEngine ==
    \/ \E r \in Range(PluginRules) : RegisterPlugin(r)
    \/ \E r \in Range(ALL_RULES) \cup Range(PluginRules), e \in BOOLEAN : Configure(r, e)
    \/ BuildEngine
    \/ \E rows \in EngineBatches : CallValidateBatch(rows)
    \/ ExecuteGlobalRules
    \/ ExecuteEntityRules
    \/ ValidateNextRow
    \/ FinishBatch

SpecEngine == InitEngine /\ [][NextEngine]_vars

\* ------------------------------------------------ the functions on their own
\* Direct calls of StructureDetector.detect_structure on a file given as
\* text, and of ColumnParser.parse_column on a column name.
RawHeaders ==
    { << "personInfo_person-id-external", "personInfo_first-name" >>,
      << " personInfo_first-name ", "jobInfo_title" >>,
      << "personInfo_first-name", "personInfo_first-name " >>,
      << "personInfo_first-name", "" >>,
      << "  ", "personInfo_first-name" >>,
      << "badcolumn", "jobInfo_title" >>,
      << "MEX_homeAddress_street" >>,
      << >> }

\* Rows 2 and 3 of the file: none, a label row, a row that looks like data,
\* rows with another column count.
RawBodies ==
    { << >>,
      << << "First name", "Last name" >> >>,
      << << "7", "7" >> >>,
      << << "only" >> >>,
      << << "Id", "First name" >>, << "7", "7" >> >>,
      << << "Id", "First name" >>, << "7" >> >>,
      << << "a", "b", "c" >>, << "7", "7" >> >>,
      << << "Id" >>, << "7" >> >> }

ColumnNames ==
    { "MEX_homeAddress_fiscal_street", "personInfo_country-of-birth",
      "MEX_jobInfo_position", "mex_jobInfo_position", "Mex_jobInfo_position",
      "ME_jobInfo_position", "MEXX_jobInfo_position", "M_jobInfo_position",
      "M1_jobInfo_position", "MEX_street", "homeAddress_fiscal_street",
      "USA_workPermitInfo_RFC_number_x", "USA_homeAddress_fiscal",
      "MEX_MEX_street", "ID_card_number_x", " BRA_jobInfo_pay-grade ",
      "MEX__street", "MEX_jobInfo_", "_jobInfo_position", "nounderscore", "" }

\* The file as csv.reader hands it over, header cells in the model's form.
ReadCsv(raw) ==
    [columns |-> [i \in 1..Len(raw.header) |-> Cell(raw.header[i])],
     body |-> raw.body]

\* Errors of each severity, with and without a business identifier, and an
\* object that has no severity attribute.
UnitErrors ==
    { rule_execution_failed("data_type"),
      required_value_missing(0, 2, << "personInfo" >>, << "first", "name" >>, << "personInfo", "first-name" >>, << "7" >>),
      required_value_missing(1, 3, << "personInfo" >>, << "first", "name" >>, << "personInfo", "first-name" >>, << "8" >>),
      missing_metadata_for_field(<< "jobInfo", "title" >>),
      [BaseError EXCEPT !.code = "UNKNOWN_ERROR", !.severity = NoStr] }

\* The longest error list of a batch result handed to create_report.
MaxBatchErrors == 2

UnitBatch(index, errors) ==
    [batch_index |-> index, processed_rows |-> BATCH_SIZE, errors |-> errors]

\* The batch results handed to create_report: none, one batch, or two
\* batches, the second with at most one error.
UnitBatchResults ==
    { <<>> }
    \cup { << UnitBatch(0, e) >> : e \in SeqsUpTo(UnitErrors, MaxBatchErrors) }
    \cup { << UnitBatch(0, e), UnitBatch(1, f) >> :
              e \in SeqsUpTo(UnitErrors, MaxBatchErrors), f \in SeqsUpTo(UnitErrors, 1) }

\* The formatters handed to export_multiple_formats and the ones that fail.
UnitExportCases ==
    { [formats |-> f, broken |-> b] :
         f \in { << "json" >>, << "json", "csv" >>, << "csv", "json" >> },
         b \in SUBSET {"json", "csv"} }

\* The clock readings at which the report of a direct call is created.
UnitClocks == {0, TicksPerSecond + 1}

\* Headers with their schemas for direct calls on one row: two columns of
\* the same element and field for two countries, and a plain header.
UnitRowCases ==
    { [columns |-> << PID, <<"MEX", "homeAddress", "street">>,
                      <<"USA", "homeAddress", "street">> >>,
       schema  |-> Scenarios[3].schema],
      [columns |-> Scenarios[1].columns, schema |-> Scenarios[1].schema],
      [columns |-> << PID, <<"personInfo", "custom", "first-name">> >>,
       schema  |-> Scenarios[1].schema] }

\* The rows of the direct calls: as many cells as the header, fewer, more.
UnitRows ==
    { << <<"7">>, <<"a", "b">>, <<"x", "y", "z">> >>,
      << <<"7">>, <<>>, <<"x">> >>,
      << <<"7">>, <<"a">> >>,
      << <<"7">>, <<"a">>, <<"b">>, <<"c">> >> }

\* The batches of the direct calls: one or two of these rows.
UnitBatches ==
    { << row >> : row \in UnitRows }
    \cup { << r1, r2 >> : r1 \in UnitRows, r2 \in UnitRows }

\* d without its entry for key k.
DictDrop(d, k) == SelectSeq(d, LAMBDA e : e.k # k)

\* The column_to_entity_map and entities arguments of a direct call of
\* transform_row: those of the header, or those with column 1 left out of the
\* map, mapped to no entity, mapped to an entity that is not in entities, or
\* unknown to its entity.
UnitTransformArgs(columns) ==
    LET tc == TransformCsvContext(columns)
        id == DictGet(tc.column_to_entity_map, 1)
    IN  { tc,
          [tc EXCEPT !.column_to_entity_map = DictDrop(@, 1)],
          [tc EXCEPT !.column_to_entity_map = DictPut(@, 1, EmptyStr)],
          [tc EXCEPT !.entities = DictDrop(@, id)],
          [tc EXCEPT !.entities =
              DictPut(@, id, [DictGet(@, id) EXCEPT
                                 !.column_index_mapping = DictDrop(@, 1)])] }

\* One function is called on its own: detect_structure and parse_column on
\* their arguments, create_report and then export_multiple_formats, or
\* transform_row and then _validate_row on its result.
\* The files of the direct calls of load_csv: a two-column header, a label
\* row and up to MaxRows rows of the pool (the short row among them).
UnitStreamFiles ==
    { [columns |-> Scenarios[1].columns, body |-> << LabelRow >> \o d] :
        d \in SeqsUpTo(RowPool, MaxRows) }

InitUnits ==
    /\ \/ /\ pc = "units"
          /\ raw_file \in [header : RawHeaders, body : RawBodies]
          /\ column_name \in ColumnNames
          /\ file = ReadCsv(raw_file)
          /\ schema = <<>>
          /\ batch_results = <<>>
          /\ clock = 0
          /\ trans_context = NoTransContext
          /\ metadata_context = EmptyMetadataContext
          /\ raw_batch = <<>>
          /\ batch_index = 0
       \/ /\ pc = "reporting"
          /\ raw_file = [header |-> <<>>, body |-> <<>>]
          /\ column_name = ""
          /\ file = ReadCsv(raw_file)
          /\ schema = <<>>
          /\ batch_results \in UnitBatchResults
          /\ clock \in UnitClocks
          /\ trans_context = NoTransContext
          /\ metadata_context = EmptyMetadataContext
          /\ raw_batch = <<>>
          /\ batch_index = 0
       \/ /\ pc = "row"
          /\ raw_file = [header |-> <<>>, body |-> <<>>]
          /\ column_name = ""
          /\ \E c \in UnitRowCases :
                /\ file = [columns |-> c.columns, body |-> <<>>]
                /\ schema = c.schema
                /\ trans_context \in UnitTransformArgs(c.columns)
                /\ metadata_context = AdaptParsedMetadata(c.schema)
          /\ raw_batch \in UnitBatches
          /\ batch_index \in {0, 1}
          /\ batch_results = <<>>
          /\ clock = 0
       \/ /\ pc = "load"
          /\ raw_file = [header |-> <<>>, body |-> <<>>]
          /\ column_name = ""
          /\ file \in UnitStreamFiles
          /\ schema = <<>>
          /\ batch_results = <<>>
          /\ clock = 0
          /\ trans_context = NoTransContext
          /\ metadata_context = EmptyMetadataContext
          /\ raw_batch = <<>>
          /\ batch_index = 0
    /\ ret = "units"
    /\ csv_context = NoCsvContext
    /\ plug = NoPlug
    /\ InitCommon

\* StructureDetector.detect_structure(file)
CallDetectStructure ==
    /\ pc = "units"
    /\ ~detected.called
    /\ LET d == DetectStructure(file)
       IN  detected' = [called |-> TRUE, error |-> d.error,
                        context |-> IF d.error = NoStr THEN d.context
                                    ELSE NoCsvContext]
    /\ UNCHANGED << file, schema, pc, ret, csv_context, reader, trans_context,
                    metadata_context, raw_batch, transformed_rows, batch_index,
                    batch_results, registry, engine, plug, config_ops, row_cursor,
                    all_errors, results, yielded, trace, raw_file, column_name,
                    parsed_column, runVars, reportVars >>

\* ColumnParser.parse_column(column_name)
CallParseColumn ==
    /\ pc = "units"
    /\ ~parsed_column.called
    /\ LET r == ParseColumn(Cell(column_name))
       IN  parsed_column' = [called |-> TRUE, ok |-> r.ok, col |-> r.col]
    /\ UNCHANGED << file, schema, pc, ret, csv_context, reader, trans_context,
                    metadata_context, raw_batch, transformed_rows, batch_index,
                    batch_results, registry, engine, plug, config_ops, row_cursor,
                    all_errors, results, yielded, trace, raw_file, detected,
                    column_name, runVars, reportVars >>

\* ReportAggregator.create_report(batch_results)
CallCreateReport ==
    /\ pc = "reporting"
    /\ LET report == CreateReport(batch_results, clock)
       IN  report_results' = [NoReportResults EXCEPT
                                 !.report = report, !.report_id = report.report_id,
                                 !.summary = report.summary]
    /\ pc' = "created"
    /\ UNCHANGED << file, schema, ret, csv_context, reader, trans_context,
                    metadata_context, raw_batch, transformed_rows, batch_index,
                    batch_results, registry, engine, plug, config_ops, row_cursor,
                    all_errors, results, yielded, trace, unitVars, runVars,
                    report_formats, export_broken >>

\* FileExporter.export_multiple_formats(report, formatters, output_dir,
\* base_filename) on the report just created.
CallExportMultipleFormats ==
    /\ pc = "created"
    /\ \E c \in UnitExportCases :
          LET e == ExportMultipleFormats(report_results.report, c.formats, OUTPUT_DIR,
                                         "validation", c.broken,
                                         [results |-> <<>>, files |-> fs])
          IN  /\ report_formats' = c.formats
              /\ export_broken' = c.broken
              /\ report_results' = [report_results EXCEPT !.returned = TRUE,
                                                          !.filepaths = e.results]
              /\ fs' = e.files
    /\ pc' = "exported"
    /\ UNCHANGED << file, schema, ret, csv_context, reader, trans_context,
                    metadata_context, raw_batch, transformed_rows, batch_index,
                    batch_results, registry, engine, plug, config_ops, row_cursor,
                    all_errors, results, yielded, trace, unitVars, clock, runs >>

\* RowTransformer.transform_row(row_values, row_index, csv_start_index,
\* column_to_entity_map, entities)
CallTransformRow ==
    /\ pc = "row"
    /\ transformed_rows' =
          << TransformRow(raw_batch[1], batch_index, 2,
                          trans_context.column_to_entity_map, trans_context.entities) >>
    /\ pc' = "row_transformed"
    /\ UNCHANGED << file, schema, ret, csv_context, reader, trans_context,
                    metadata_context, raw_batch, batch_index, batch_results, registry,
                    engine, plug, config_ops, row_cursor, all_errors, results,
                    yielded, trace, unitVars, runVars, reportVars >>

\* RowTransformer.transform_batch(batch_rows, batch_index, 2, map, entities)
CallTransformBatch ==
    /\ pc = "row"
    /\ transformed_rows' =
          TransformBatch(raw_batch, batch_index, 2,
                         trans_context.column_to_entity_map, trans_context.entities)
    /\ pc' = "batch_transformed"
    /\ UNCHANGED << file, schema, ret, csv_context, reader, trans_context,
                    metadata_context, raw_batch, batch_index, batch_results, registry,
                    engine, plug, config_ops, row_cursor, all_errors, results,
                    yielded, trace, unitVars, runVars, reportVars >>

\* RuleEngine._validate_row(row, context) of an engine over a new registry.
CallValidateRow ==
    /\ pc = "row_transformed"
    /\ LET vs == ValidateRow(transformed_rows[1], trans_context, metadata_context,
                             NewRuleEngine(NewRegistry).field_rules, plug)
       IN  /\ all_errors' = Flatten([j \in 1..Len(vs) |-> vs[j].errors])
           /\ trace' = [j \in 1..Len(vs) |-> FieldEvent(1, j, vs[j])]
    /\ row_cursor' = 1
    /\ pc' = "row_validated"
    /\ UNCHANGED << file, schema, ret, csv_context, reader, trans_context,
                    metadata_context, raw_batch, transformed_rows, batch_index,
                    batch_results, registry, engine, plug, config_ops, results,
                    yielded, unitVars, runVars, reportVars >>

\* CsvLoader.load_csv(file): the context, its data_stream being the generator
\* object read_batches returned, not yet started.
CallLoadCsv ==
    /\ pc = "load"
    /\ LET d == DetectStructure(file)
       IN  IF d.error # NoStr
           THEN /\ pc' = "load_failed"
                /\ UNCHANGED << csv_context, reader >>
           ELSE /\ csv_context' = [d.context EXCEPT !.errors = @ \o NewReader.errors]
                /\ reader' = NewReader
                /\ pc' = "iterating"
    /\ UNCHANGED << file, schema, ret, trans_context, metadata_context, raw_batch,
                    transformed_rows, batch_index, batch_results, registry, engine,
                    plug, config_ops, row_cursor, all_errors, results, yielded,
                    trace >>
    /\ UNCHANGED << unitVars, runVars, reportVars >>

\* One turn of "for raw_batch in context.data_stream" in the caller:
\* next() on the generator; batch_index counts the batches of this loop.
IterateDataStream ==
    /\ pc = "iterating"
    /\ LET rd == ResumeReader(reader, file, csv_context)
       IN  /\ reader' = rd
           /\ IF rd.status = "exhausted"
              THEN /\ pc' = "consumed"
                   /\ UNCHANGED << raw_batch, yielded, batch_index >>
              ELSE /\ raw_batch' = rd.batch
                   /\ yielded' = Append(yielded, rd.batch)
                   /\ batch_index' = batch_index + 1
                   /\ pc' = "iterating"
    /\ UNCHANGED << file, schema, ret, csv_context, trans_context, metadata_context,
                    transformed_rows, batch_results, registry, engine, plug,
                    config_ops, row_cursor, all_errors, results, trace >>
    /\ UNCHANGED << unitVars, runVars, reportVars >>

\* The caller leaves the loop after a batch (break).
BreakIteration ==
    /\ pc = "iterating"
    /\ batch_index > 0
    /\ pc' = "consumed"
    /\ UNCHANGED << file, schema, ret, csv_context, reader, trans_context,
                    metadata_context, raw_batch, transformed_rows, batch_index,
                    batch_results, registry, engine, plug, config_ops, row_cursor,
                    all_errors, results, yielded, trace >>
    /\ UNCHANGED << unitVars, runVars, reportVars >>

\* The batches "for raw_batch in data_stream" gets from the generator in
\* frame rd, and the frame it leaves.
RECURSIVE IterateToEnd(_, _, _, _)
IterateToEnd(rd, f, ctx, acc) ==
    LET nx == ResumeReader(rd, f, ctx)
    IN  IF nx.status = "exhausted" THEN [reader |-> nx, batches |-> acc]
        ELSE IterateToEnd(nx, f, ctx, Append(acc, nx.batch))

\* A second "for raw_batch in context.data_stream", to its end: iter() of a
\* generator is the generator itself, in the frame the first loop left.
IterateDataStreamAgain ==
    /\ pc = "consumed"
    /\ LET r == IterateToEnd(reader, file, csv_context, <<>>)
       IN  /\ reader' = r.reader
           /\ yielded' = yielded \o r.batches
    /\ pc' = "iterated_again"
    /\ UNCHANGED << file, schema, ret, csv_context, trans_context, metadata_context,
                    raw_batch, transformed_rows, batch_index, batch_results, registry,
                    engine, plug, config_ops, row_cursor, all_errors, results, trace >>
    /\ UNCHANGED << unitVars, runVars, reportVars >>

NextUnits ==
    \/ CallDetectStructure
    \/ CallParseColumn
    \/ CallCreateReport
    \/ CallExportMultipleFormats
    \/ CallTransformRow
    \/ CallTransformBatch
    \/ CallValidateRow
    \/ CallLoadCsv
    \/ IterateDataStream
    \/ BreakIteration
    \/ IterateDataStreamAgain

SpecUnits == InitUnits /\ [][NextUnits]_vars

\* ------------------------------------------------------- concurrent runs
\* Steps 1 to 5 of execute_validation on the objects of one run: the data
\* stream is drained, each batch transformed and validated with a new
\* registry and engine.
RECURSIVE DrainStream(_, _, _, _, _, _)
DrainStream(rd, f, ctx, tc, mc, acc) ==
    LET nx == ResumeReader(rd, f, ctx)
    IN  IF nx.status = "exhausted" THEN acc
        ELSE LET rows == TransformBatch(nx.batch, Len(acc), ctx.data_start_index,
                                        tc.column_to_entity_map, tc.entities)
             IN  DrainStream(nx, f, ctx, tc, mc,
                    Append(acc, [batch_index |-> Len(acc),
                                 processed_rows |-> Len(rows),
                                 errors |-> ValidateBatchErrors(
                                               rows, tc, mc,
                                               NewRuleEngine(NewRegistry), NoPlug)]))

\* The reason steps 1 to 4 abort the run with (NoStr: none), and the batch
\* results of step 5.
ValidateSteps(f, sch) ==
    LET d == DetectStructure(f)
    IN  IF d.error # NoStr THEN [aborted |-> "csv", batch_results |-> <<>>]
        ELSE IF sch = NoSchema THEN [aborted |-> "metadata", batch_results |-> <<>>]
        ELSE IF d.context.columns = <<>>
        THEN [aborted |-> "transform", batch_results |-> <<>>]
        ELSE IF AdaptationRaises(sch)
        THEN [aborted |-> "context", batch_results |-> <<>>]
        ELSE [aborted |-> NoStr,
              batch_results |-> DrainStream(NewReader, f, d.context,
                                            TransformCsvContext(d.context.columns),
                                            AdaptParsedMetadata(sch), <<>>)]

\* The last clock reading of a behaviour of concurrent runs.
MaxClock == 3

\* The files and schemas the concurrent runs validate: a row that is too
\* long, a clean row, no stored schema.
ConcurrentInputs ==
    { [file |-> [columns |-> Scenarios[1].columns,
                 body |-> << LabelRow, << <<"7">>, <<"a", "b", "c">> >> >>],
       schema |-> Scenarios[1].schema],
      [file |-> [columns |-> Scenarios[2].columns,
                 body |-> << LabelRow, << <<"7">>, <<"7">> >> >>],
       schema |-> Scenarios[2].schema],
      [file |-> [columns |-> Scenarios[6].columns, body |-> << LabelRow >>],
       schema |-> Scenarios[6].schema] }

\* The output_dir arguments: the default directory or one of the caller.
ConcurrentDirs == { OUTPUT_DIR, "reports/other" }

\* The frame of a run of execute_validation on its own orchestrator.
NewRun(input, output_dir) ==
    [pc |-> "start", file |-> input.file, schema |-> input.schema,
     output_dir |-> output_dir, start_time |-> NoInt, execution_id |-> NoStr,
     batch_results |-> <<>>, report_results |-> NoReportResults,
     results |-> NewResults(0)]

InitConcurrent ==
    /\ runs \in { << NewRun(a, d), NewRun(b, e) >> :
                     a \in ConcurrentInputs, b \in ConcurrentInputs,
                     d \in ConcurrentDirs, e \in ConcurrentDirs }
    /\ clock = 0
    /\ pc = "concurrent"
    /\ ret = "concurrent"
    /\ file = [columns |-> <<>>, body |-> <<>>]
    /\ schema = <<>>
    /\ csv_context = NoCsvContext
    /\ trans_context = NoTransContext
    /\ metadata_context = EmptyMetadataContext
    /\ plug = NoPlug
    /\ raw_file = NoRawFile
    /\ column_name = ""
    /\ batch_results = <<>>
    /\ raw_batch = <<>>
    /\ transformed_rows = <<>>
    /\ batch_index = 0
    /\ registry = NewRegistry
    /\ engine = NoEngine
    /\ config_ops = 0
    /\ row_cursor = 0
    /\ all_errors = <<>>
    /\ results = NewResults(0)
    /\ yielded = <<>>
    /\ trace = <<>>
    /\ reader = NewReader
    /\ detected = NoDetected
    /\ parsed_column = NoParsed
    /\ fs = <<>>
    /\ report_formats = << "json", "csv" >>
    /\ report_results = NoReportResults
    /\ export_broken = {}

\* What no step of a concurrent run touches.
runUnchanged ==
    << file, schema, pc, ret, csv_context, reader, trans_context, metadata_context,
       raw_batch, transformed_rows, batch_index, batch_results, registry, engine,
       plug, config_ops, row_cursor, all_errors, results, yielded, trace, unitVars,
       reportVars >>

\* Time passes.
Tick ==
    /\ clock < MaxClock
    /\ clock' = clock + 1
    /\ UNCHANGED << runs, fs, runUnchanged >>

\* execute_validation is entered: execution_id, start_time, the results dict.
RunStart(i) ==
    /\ runs[i].pc = "start"
    /\ runs' = [runs EXCEPT ![i].pc = "validate",
                            ![i].start_time = clock,
                            ![i].execution_id = Timestamp(clock),
                            ![i].results = NewResults(clock)]
    /\ UNCHANGED << clock, fs, runUnchanged >>

\* Steps 1 to 5, on the run's own contexts, stream, registries and engines.
RunValidate(i) ==
    /\ runs[i].pc = "validate"
    /\ LET v == ValidateSteps(runs[i].file, runs[i].schema)
       IN  runs' = IF v.aborted # NoStr
                   THEN [runs EXCEPT ![i].pc = "done",
                                     ![i].results.errors = Append(@, v.aborted)]
                   ELSE [runs EXCEPT ![i].pc = "report",
                                     ![i].batch_results = v.batch_results]
    /\ UNCHANGED << clock, fs, runUnchanged >>

\* Step 6, generate_and_export: the report files are written.
RunReport(i) ==
    /\ runs[i].pc = "report"
    /\ LET rr == GenerateAndExport(runs[i].batch_results, clock, runs[i].output_dir,
                                   "validation_" \o runs[i].execution_id,
                                   report_formats, export_broken, fs)
       IN  /\ fs' = rr.files
           /\ runs' = [runs EXCEPT ![i].pc = "load",
                                   ![i].report_results = Returned(rr)]
    /\ UNCHANGED << clock, runUnchanged >>

\* Step 6, after generate_and_export: the JSON file is read back.
RunLoad(i) ==
    /\ runs[i].pc = "load"
    /\ runs' = [runs EXCEPT ![i].pc = "done",
                            ![i].results = LoadReport(@, runs[i].report_results, fs)]
    /\ UNCHANGED << clock, fs, runUnchanged >>

NextConcurrent ==
    \/ Tick
    \/ \E i \in 1..Len(runs) : RunStart(i)
    \/ \E i \in 1..Len(runs) : RunValidate(i)
    \/ \E i \in 1..Len(runs) : RunReport(i)
    \/ \E i \in 1..Len(runs) : RunLoad(i)

SpecConcurrent == InitConcurrent /\ [][NextConcurrent]_vars

\* ------------------------------------------------------------ properties
CountIf(s, P(_)) == Len(SelectSeq(s, P))

IsPrefix(s, t) == Len(s) <= Len(t) /\ SubSeq(t, 1, Len(s)) = s

\* validate_batch is running.
Validating == pc \in {"global", "entity", "rows"}

\* validate_batch has gone through all rows of its batch.
BatchValidated == pc = "rows" /\ row_cursor = Len(transformed_rows)

FieldEvents == SelectSeq(trace, LAMBDA ev : ev.kind = "field")

\* The triple a field event is about.
TripleOf(ev) == RowTriples(transformed_rows[ev.row])[ev.triple]

\* The number of triples of the rows validated so far.
TriplesSoFar ==
    SeqSum([r \in 1..row_cursor |-> Len(RowTriples(transformed_rows[r]))])

\* plugin_faulty raises on this value.
FaultyRaisesOn(value) == plug.phase # "none" /\ value = plug.trigger

\* C1: a FIELD rule that raises (in should_skip or in validate) on a triple
\* does not stop validate_batch: every enabled FIELD rule is still consulted on
\* that triple, in order, the rules that do not raise run or skip as they
\* would alone, each raise leaves exactly one FATAL RULE_EXECUTION_FAILED
\* error naming the rule that raised, and all later triples and rows of the
\* batch are validated.
C1_RaisingRuleIsContained ==
    Validating =>
        /\ Len(FieldEvents) = TriplesSoFar
        /\ \A e \in 1..Len(FieldEvents) :
              LET ev == FieldEvents[e]
                  value == TripleOf(ev).value
                  failed(r) == CountIf(ev.errors,
                                       LAMBDA x : /\ x.code = "RULE_EXECUTION_FAILED"
                                                  /\ x.severity = "FATAL"
                                                  /\ x.rule_id = r)
              IN  ev.fm # NoMetadata =>
                    /\ Len(ev.calls) = Len(engine.field_rules)
                    /\ \A k \in 1..Len(ev.calls) :
                          LET r == engine.field_rules[k]
                          IN  /\ ev.calls[k].rule = r
                              /\ IF r = "plugin_faulty" /\ FaultyRaisesOn(value)
                                 THEN ev.calls[k].outcome = "raised" /\ failed(r) = 1
                                 ELSE /\ failed(r) = 0
                                      /\ ev.calls[k].outcome =
                                            IF ShouldSkip(r, ev.fm, value, plug) = "skip"
                                            THEN "skipped" ELSE "validated"
                    /\ CountIf(ev.errors, LAMBDA x : x.severity = "FATAL")
                          = CountIf(ev.calls, LAMBDA c : c.outcome = "raised")

\* C1's case: plugin_faulty raised on a triple, a rule before it and a rule
\* after it ran on the same triple, and a later row of the batch was
\* validated with a rule reporting an error there.
C1_Witness ==
    /\ BatchValidated
    /\ \E e \in 1..Len(FieldEvents) :
          LET ev == FieldEvents[e]
          IN  /\ \E k \in 2..(Len(ev.calls) - 1) :
                    /\ ev.calls[k].outcome = "raised"
                    /\ ev.calls[k - 1].outcome = "validated"
                    /\ ev.calls[k + 1].outcome = "validated"
              /\ \E x \in Range(ev.errors) : x.code = "MAX_LENGTH_EXCEEDED"
              /\ \E l \in (e + 1)..Len(FieldEvents) :
                    /\ FieldEvents[l].row > ev.row
                    /\ FieldEvents[l].errors # <<>>

\* The physical rows read_batches has to deliver: those after the first
\* data_start_index rows of the file whose cell count is the header's.
DataRowIndices == { k \in 1..Len(file.body) : k >= csv_context.data_start_index }

IsMatching(k) == Len(file.body[k]) = Len(file.columns)

MatchingRows ==
    SelectSeq(SubSeq(file.body, csv_context.data_start_index, Len(file.body)),
              LAMBDA row : Len(row) = Len(file.columns))

Loaded == pc \notin {"load_csv", "configure", "ready"} /\ csv_context # NoCsvContext
          /\ ret = "stream"

\* C3: the batches the stream yields, concatenated in the order they are
\* yielded, are at every moment a prefix of the matching data rows in file
\* order, and exactly those rows once the stream is exhausted; no batch is
\* empty and every batch but the last has exactly BATCH_SIZE rows.
C3_BatchesCoverMatchingRows ==
    Loaded =>
        /\ IsPrefix(Flatten(yielded), MatchingRows)
        /\ \A i \in 1..Len(yielded) :
              /\ yielded[i] # <<>>
              /\ Len(yielded[i]) <= BATCH_SIZE
              /\ i < Len(yielded) => Len(yielded[i]) = BATCH_SIZE
        /\ reader.status \in {"final", "exhausted"} => Flatten(yielded) = MatchingRows
        /\ reader.status = "yielded" => Len(yielded[Len(yielded)]) = BATCH_SIZE

\* C3's case: a file with a mismatched row among its data rows was read to
\* the end in several batches, the last one not full.
C3_Witness ==
    /\ Loaded
    /\ reader.status = "exhausted"
    /\ Len(yielded) >= 2
    /\ Len(yielded[Len(yielded)]) < BATCH_SIZE
    /\ \E k \in DataRowIndices : ~IsMatching(k)

\* The report entries of a list of errors, each with the row indices of its
\* error.
EntriesWithIndices(errors) ==
    [i \in 1..Len(errors) |->
        [entry |-> ReportEntry(errors[i]), row_index |-> errors[i].row_index,
         csv_row_index |-> errors[i].csv_row_index]]

\* The errors of the run that validates the file's matching rows as one batch.
SingleBatchErrors ==
    IF MatchingRows = <<>> THEN <<>>
    ELSE ValidateBatchErrors(
            TransformBatch(MatchingRows, 0, csv_context.data_start_index,
                           trans_context.column_to_entity_map, trans_context.entities),
            trans_context, metadata_context, NewRuleEngine(NewRegistry), NoPlug)

\* C2: the report of a completed run (its entries in order, with the row
\* indices of their errors) is the report obtained by validating the same data
\* rows as one single batch.
C2_StreamingEqualsSingleBatch ==
    (pc = "done" /\ results.success) =>
        /\ report_results.report.entries = ConvertErrorsToEntries(SingleBatchErrors)
        /\ EntriesWithIndices(AllErrors(batch_results))
              = EntriesWithIndices(SingleBatchErrors)

\* C4: a data row whose cell count differs from the header's is in no batch
\* and does not end the stream, and once the stream is exhausted
\* CsvContext.errors holds exactly one non-fatal ROW_COLUMN_COUNT_MISMATCH with
\* the physical row index of each such row (and none for any other data row).
C4_MismatchedRowsRecorded ==
    Loaded =>
        /\ \A i \in 1..Len(yielded) : \A j \in 1..Len(yielded[i]) :
              Len(yielded[i][j]) = Len(file.columns)
        /\ reader.status = "exhausted" =>
              /\ Flatten(yielded) = MatchingRows
              /\ \A k \in DataRowIndices :
                    CountIf(csv_context.errors,
                            LAMBDA x : /\ x.code = "ROW_COLUMN_COUNT_MISMATCH"
                                       /\ x.severity # "FATAL"
                                       /\ x.row_index = k)
                       = IF IsMatching(k) THEN 0 ELSE 1

\* The element a field node of the schema tree stands under.
ParentElement(i) ==
    LET above == { j \in 1..(i - 1) : schema[j].tag = "hris-element" }
    IN  IF above = {} THEN 0 ELSE CHOOSE j \in above : \A l \in above : l <= j

\* The field nodes under an element of origin csf with a resolved country.
CsfFieldNodes ==
    { i \in 1..Len(schema) :
        /\ schema[i].tag = "hris-field"
        /\ ParentElement(i) # 0
        /\ schema[ParentElement(i)].origin = "csf"
        /\ schema[ParentElement(i)].country \notin {"", "UNKNOWN", NoStr} }

\* C5: once the adapter has walked the schema tree, every field f under a
\* csf element e with resolved country C is in the full-path index under
\* e_f and under C_e_f.
C5_CsfFieldHasBothKeys ==
    (pc \in {"stream", "transform_batch", "validate", "report", "done"}
        /\ metadata_context # EmptyMetadataContext) =>
        \A i \in CsfFieldNodes :
            LET e == schema[ParentElement(i)].technical_id
                f == schema[i].technical_id
                C == schema[ParentElement(i)].country
            IN  /\ DictHas(metadata_context.field_by_full_path, e \o f)
                /\ DictHas(metadata_context.field_by_full_path, <<C>> \o e \o f)

\* The (schema entity, required field) pairs whose column the header lacks:
\* no parsed column has the entity's id, or none of those has the field id.
MissingRequiredPairs ==
    { pr \in UNION { { << metadata_context.entities[i].k, f >> :
                          f \in metadata_context.entities[i].v.required_fields } :
                     i \in 1..Len(metadata_context.entities) } :
        ~\E c \in 1..Len(trans_context.parsed_columns) :
            /\ trans_context.parsed_columns[c].element_id = pr[1]
            /\ trans_context.parsed_columns[c].field_id = pr[2] }

RequiredColumnEvents ==
    SelectSeq(trace, LAMBDA ev : ev.kind = "entity" /\ ev.rule = "required_columns")

\* C6: the errors of a run of required_columns are ERROR
\* REQUIRED_COLUMN_MISSING errors without row indices and without business
\* identifier, exactly one for each (schema entity, required field) pair whose
\* entity has no columns in the header or whose field is not among them.
C6_RequiredColumnsExactlyMissing ==
    (pc = "rows" /\ "required_columns" \in Range(engine.entity_rules)) =>
        /\ Len(RequiredColumnEvents) = 1
        /\ LET errs == RequiredColumnEvents[1].errors
           IN  /\ \A i \in 1..Len(errs) :
                     /\ errs[i].code = "REQUIRED_COLUMN_MISSING"
                     /\ errs[i].severity = "ERROR"
                     /\ errs[i].row_index = NoInt
                     /\ errs[i].csv_row_index = NoInt
                     /\ errs[i].person_id_external = None
               /\ { << errs[i].entity_id, errs[i].field_id >> : i \in 1..Len(errs) }
                     = MissingRequiredPairs
               /\ Len(errs) = Cardinality(MissingRequiredPairs)

\* C6's case: the rule ran on a schema with a required field whose column is
\* in the header and one whose column is not.
C6_Witness ==
    /\ pc = "rows"
    /\ Len(RequiredColumnEvents) = 1
    /\ << <<"personInfo">>, <<"last-name">> >> \in MissingRequiredPairs
    /\ << <<"personInfo">>, <<"first-name">> >> \notin MissingRequiredPairs
    /\ <<"first-name">> \in DictGet(metadata_context.entities, <<"personInfo">>).required_fields
    /\ Len(RequiredColumnEvents[1].errors) = 1

\* A value that is empty or consists of white space only.
IsBlank(value) == \A i \in 1..Len(value) : value[i] = " "

\* The header column (1-based) a triple's value was read from.
ColumnOf(t) ==
    CHOOSE c \in 1..Len(file.columns) :
        /\ trans_context.parsed_columns[c].element_id = t.entity_id
        /\ trans_context.parsed_columns[c].field_id = t.field_id

\* The business identifier of a row: the trimmed cell under the header column
\* personInfo_person-id-external, None when there is none or it is empty.
BusinessIdOf(row) ==
    LET cols == { c \in 1..Len(file.columns) : file.columns[c] = PID }
        cell == row.raw_values[CHOOSE c \in cols : TRUE]
    IN  IF cols = {} \/ IsBlank(cell) THEN None ELSE Strip(cell)

C8_MaxLengthExceeded ==
    Validating =>
        \A e \in 1..Len(FieldEvents) :
            LET ev == FieldEvents[e]
                t  == TripleOf(ev)
                hits == SelectSeq(ev.errors, LAMBDA x : x.code = "MAX_LENGTH_EXCEEDED")
            IN  ev.fm # NoMetadata =>
                  IF ev.fm.max_length # NoInt /\ t.value # None
                     /\ Len(t.value) > ev.fm.max_length
                  THEN /\ Len(hits) = 1
                       /\ hits[1].severity = "ERROR"
                       /\ hits[1].expected = ev.fm.max_length
                       /\ hits[1].actual = Len(t.value)
                  ELSE hits = <<>>

\* C8's case: a three-character value under max length 2 was reported, and a
\* shorter value under the same declared length was validated without error.
C8_Witness ==
    /\ Validating
    /\ \E e \in 1..Len(FieldEvents) :
          /\ FieldEvents[e].fm.max_length = 2
          /\ \E x \in Range(FieldEvents[e].errors) :
                x.code = "MAX_LENGTH_EXCEEDED" /\ x.expected = 2 /\ x.actual = 3
    /\ \E e \in 1..Len(FieldEvents) :
          /\ FieldEvents[e].fm.max_length = 2
          /\ Len(TripleOf(FieldEvents[e]).value) = 1
          /\ FieldEvents[e].errors = <<>>

\* C9: a triple without resolvable metadata gets exactly one WARNING
\* MISSING_METADATA_FOR_FIELD and no FIELD rule, and the remaining triples of
\* the row are still validated; on a triple with metadata every enabled FIELD
\* rule whose should_skip is false is run.
C9_MissingMetadataWarning ==
    Validating =>
        /\ Len(FieldEvents) = TriplesSoFar
        /\ \A e \in 1..Len(FieldEvents) :
              LET ev == FieldEvents[e]
                  t  == TripleOf(ev)
                  warnings == SelectSeq(ev.errors,
                                  LAMBDA x : x.code = "MISSING_METADATA_FOR_FIELD")
              IN  IF ev.fm = NoMetadata
                  THEN /\ Len(ev.errors) = 1
                       /\ Len(warnings) = 1
                       /\ warnings[1].severity = "WARNING"
                       /\ ev.calls = <<>>
                  ELSE /\ warnings = <<>>
                       /\ \A k \in 1..Len(engine.field_rules) :
                             ShouldSkip(engine.field_rules[k], ev.fm, t.value, plug) = "run"
                                => \E c \in 1..Len(ev.calls) :
                                      /\ ev.calls[c].rule = engine.field_rules[k]
                                      /\ ev.calls[c].outcome = "validated"

\* C9's case: the first triple of a row has no metadata and was warned
\* about, the next triple of the same row has metadata and a rule ran on it.
C9_Witness ==
    /\ Validating
    /\ \E e \in 1..(Len(FieldEvents) - 1) :
          /\ FieldEvents[e].fm = NoMetadata
          /\ FieldEvents[e].errors # <<>>
          /\ FieldEvents[e + 1].row = FieldEvents[e].row
          /\ FieldEvents[e + 1].fm # NoMetadata
          /\ \E c \in 1..Len(FieldEvents[e + 1].calls) :
                FieldEvents[e + 1].calls[c].outcome = "validated"

KindRank(kind) == CASE kind = "global" -> 1 [] kind = "entity" -> 2 [] OTHER -> 3

RulesOfKind(kind) ==
    LET evs == SelectSeq(trace, LAMBDA ev : ev.kind = kind)
    IN  [i \in 1..Len(evs) |-> evs[i].rule]

\* C10: within a validate_batch call the GLOBAL rules run once each before
\* any ENTITY rule, the ENTITY rules once each before any row, the rows in
\* batch order and the triples of a row in order; the error list is the
\* errors of these runs in that order.
C10_DiscoveryOrder ==
    Validating =>
        /\ \A i, j \in 1..Len(trace) :
              i < j =>
                /\ KindRank(trace[i].kind) <= KindRank(trace[j].kind)
                /\ (trace[i].kind = "field" /\ trace[j].kind = "field") =>
                      \/ trace[i].row < trace[j].row
                      \/ trace[i].row = trace[j].row /\ trace[i].triple < trace[j].triple
        /\ all_errors = Flatten([i \in 1..Len(trace) |-> trace[i].errors])
        /\ pc = "global" => trace = <<>>
        /\ pc \in {"entity", "rows"} => RulesOfKind("global") = engine.global_rules
        /\ pc = "entity" => RulesOfKind("entity") = <<>>
        /\ pc = "rows" => RulesOfKind("entity") = engine.entity_rules
        /\ pc # "rows" => FieldEvents = <<>>
        /\ \A r \in 1..Len(transformed_rows) :
              [i \in 1..CountIf(FieldEvents, LAMBDA ev : ev.row = r) |->
                    SelectSeq(FieldEvents, LAMBDA ev : ev.row = r)[i].triple]
                 = IF r <= row_cursor
                   THEN [i \in 1..Len(RowTriples(transformed_rows[r])) |-> i]
                   ELSE <<>>

\* C10's case: a batch of two rows was validated by an engine with a GLOBAL
\* and an ENTITY rule, and rules of all three scopes reported errors: the
\* first error is the GLOBAL rule's, the last one a row's.
C10_Witness ==
    /\ BatchValidated
    /\ row_cursor = 2
    /\ engine.global_rules # <<>>
    /\ engine.entity_rules # <<>>
    /\ Len(all_errors) >= 4
    /\ all_errors[1].code \in {"PLUGIN_GLOBAL", "RULE_EXECUTION_FAILED"}
    /\ all_errors[2].code = "REQUIRED_COLUMN_MISSING"
    /\ all_errors[Len(all_errors)].row_index = 1
    /\ \E i \in 3..(Len(all_errors) - 1) : all_errors[i].row_index = 0

\* C11: every error produced while validating a row (REQUIRED_VALUE_MISSING,
\* INVALID_DATA_TYPE, MAX_LENGTH_EXCEEDED, MISSING_METADATA_FOR_FIELD and
\* RULE_EXECUTION_FAILED of one of its fields) carries the row's business
\* identifier.
C11_RowErrorsCarryBusinessId ==
    Validating =>
        \A e \in 1..Len(FieldEvents) :
            \A x \in Range(FieldEvents[e].errors) :
                x.person_id_external = BusinessIdOf(transformed_rows[FieldEvents[e].row])

\* Number of '_' in a text.
RECURSIVE Underscores(_)
Underscores(x) ==
    IF Len(x) = 0 THEN 0
    ELSE (IF SubSeq(x, 1, 1) = "_" THEN 1 ELSE 0) + Underscores(SubSeq(x, 2, Len(x)))

\* A valid header, read on the trimmed text of the cells as the detector
\* compares them: at least one cell, every cell non-empty, unique and
\* containing an underscore.
ValidRawHeader(header) ==
    /\ header # <<>>
    /\ \A i \in 1..Len(header) :
          /\ StripStr(header[i]) # ""
          /\ Underscores(header[i]) >= 1
          /\ \A j \in 1..Len(header) :
                i # j => StripStr(header[i]) # StripStr(header[j])

\* C12: for every file whose first row is a valid header, detect_structure
\* returns a context with data_start_index = 2 and no header error, whatever
\* row 2 holds; a column-count mismatch on row 2 only adds one non-fatal
\* LABEL_COLUMN_MISMATCH to the context's errors.
C12_ValidHeaderStartsAtTwo ==
    (detected.called /\ ValidRawHeader(raw_file.header)) =>
        LET labels == SelectSeq(detected.context.errors,
                                LAMBDA x : x.code = "LABEL_COLUMN_MISMATCH")
            mismatch == /\ Len(raw_file.body) >= 1
                        /\ Len(raw_file.body[1]) # Len(raw_file.header)
        IN  /\ detected.error = NoStr
            /\ detected.context.data_start_index = 2
            /\ detected.context.total_columns = Len(raw_file.header)
            /\ Len(labels) = (IF mismatch THEN 1 ELSE 0)
            /\ \A i \in 1..Len(detected.context.errors) :
                  detected.context.errors[i].severity # "FATAL"

\* C12's case: a valid header whose cells carry surrounding white space,
\* followed by a row 2 of another column count and a data row.
C12_Witness ==
    /\ detected.called
    /\ ValidRawHeader(raw_file.header)
    /\ \E i \in 1..Len(raw_file.header) : StripStr(raw_file.header[i]) # raw_file.header[i]
    /\ Len(raw_file.body) = 2
    /\ Len(raw_file.body[1]) # Len(raw_file.header)
    /\ detected.context.data_start_index = 2
    /\ \E i \in 1..Len(detected.context.errors) :
          detected.context.errors[i].code = "LABEL_COLUMN_MISMATCH"

\* '_'.join(segments)
RECURSIVE JoinSegs(_)
JoinSegs(segs) ==
    IF Len(segs) = 0 THEN ""
    ELSE IF Len(segs) = 1 THEN segs[1]
    ELSE segs[1] \o "_" \o JoinSegs(Tail(segs))

\* The text before the first '_' of x (all of x when there is none).
RECURSIVE FirstSegment(_)
FirstSegment(x) ==
    IF Len(x) = 0 \/ SubSeq(x, 1, 1) = "_" THEN ""
    ELSE SubSeq(x, 1, 1) \o FirstSegment(SubSeq(x, 2, Len(x)))

\* At least 3 '_'-separated segments, the first one 2-3 upper-case letters.
CountryScopedName(x) ==
    /\ Underscores(x) >= 2
    /\ Len(FirstSegment(x)) \in {2, 3}
    /\ \A i \in 1..Len(FirstSegment(x)) :
          SubSeq(FirstSegment(x), i, i) \in UpperLetters

\* C13: parse_column treats a column name as country-scoped exactly when it
\* has at least 3 '_'-separated segments and its first segment is 2-3
\* upper-case letters; then country_code is the first segment and entity_id
\* and field_id are cut from the text after the country prefix, so that the
\* entity never carries it; an unscoped name has no country and is cut into
\* entity and field as a whole.
C13_CountryScopedColumns ==
    (parsed_column.called /\ parsed_column.ok) =>
        LET name == StripStr(column_name)
            col  == parsed_column.col
            rest == JoinSegs(col.element_id) \o "_" \o JoinSegs(col.field_id)
        IN  /\ col.is_country_specific = CountryScopedName(name)
            /\ IF CountryScopedName(name)
               THEN /\ col.country_code = FirstSegment(name)
                    /\ name = FirstSegment(name) \o "_" \o rest
               ELSE /\ col.country_code = NoStr
                    /\ name = rest
            /\ column_name = "MEX_homeAddress_fiscal_street" =>
                  /\ col.element_id = << "homeAddress", "fiscal" >>
                  /\ col.field_id = << "street" >>
                  /\ col.country_code = "MEX"
            /\ column_name = "personInfo_country-of-birth" =>
                  /\ col.element_id = << "personInfo" >>
                  /\ col.field_id = << "country-of-birth" >>
                  /\ ~col.is_country_specific

\* C13's case: a name of four segments whose first segment is two upper-case
\* letters outside the list of common countries was split into country,
\* entity and field.
C13_Witness ==
    /\ parsed_column.called
    /\ parsed_column.ok
    /\ column_name = "ID_card_number_x"
    /\ parsed_column.col.is_country_specific
    /\ parsed_column.col.country_code = "ID"
    /\ parsed_column.col.element_id = << "card" >>
    /\ parsed_column.col.field_id = << "number", "x" >>

\* The reasons execute_validation records for a failure of steps 1 to 4.
EarlyFailures == {"csv", "metadata", "transform", "context"}

\* Some step before the data stream fails on the input of the run.
InputFailsEarly ==
    \/ ValidateHeaderRow(file.columns) # NoStr
    \/ schema = NoSchema
    \/ AdaptationRaises(schema)

\* No batch was pulled from the stream, transformed or validated.
NoBatchTouched ==
    /\ reader.status = "created"
    /\ yielded = <<>>
    /\ raw_batch = <<>>
    /\ transformed_rows = <<>>
    /\ batch_results = <<>>
    /\ trace = <<>>

\* C14: when CSV loading, metadata loading, column transformation or the
\* creation of the validation context fails, the run never pulls, transforms
\* or validates a batch, and it returns success = false with the failure
\* reason in errors.
C14_EarlyFailureShortCircuits ==
    /\ InputFailsEarly =>
          /\ pc \in {"load_csv", "load_metadata", "transform", "context", "done"}
          /\ NoBatchTouched
          /\ pc = "done" => /\ ~results.success
                            /\ Len(results.errors) = 1
                            /\ results.errors[1] \in EarlyFailures
    /\ (pc = "done" /\ \E i \in 1..Len(results.errors) : results.errors[i] \in EarlyFailures)
          => NoBatchTouched /\ ~results.success

\* C14's case: the metadata of a file with data rows could not be adapted,
\* and the run returned without touching the stream.
C14_Witness ==
    /\ pc = "done"
    /\ results.errors = << "context" >>
    /\ Len(file.body) >= 3
    /\ NoBatchTouched
    /\ ~results.success

\* The run returned after an abort of steps 1 to 4, before the data stream.
AbortedBeforeBatches ==
    /\ pc = "done"
    /\ \E i \in 1..Len(results.errors) : results.errors[i] \in EarlyFailures

\* C15: the success flag of a returned run is false exactly when the run
\* aborted before any batch was validated; a run that went through its whole
\* data stream returns success = true whatever was recorded.
C15_SuccessFalseExactlyForEarlyAborts ==
    pc = "done" => (~results.success <=> AbortedBeforeBatches)

\* The keys the result of execute_validation is said to have.
ResultKeys == {"execution_id", "success", "summary", "metrics", "report_files", "errors"}

\* C16: every returned result, of a completed run or of an aborted one, has a
\* textual summary and a metrics block next to execution_id, success,
\* report_files and errors.
C16_ResultHasSummaryAndMetrics ==
    pc = "done" =>
        /\ ResultKeys \subseteq DOMAIN results
        /\ results.summary.is_text

\* The number of errors in the batch results before the one at index i.
ErrorsBefore(i) == SeqSum([k \in 1..(i - 1) |-> Len(batch_results[k].errors)])

\* The level the report is to give to an error of this severity.
LevelOfSeverity(severity) ==
    CASE severity \in {"FATAL", "ERROR"} -> "ERROR"
      [] severity = "WARNING" -> "WARNING"
      [] OTHER -> "INFO"

\* C17: the report create_report builds has exactly one entry per error of
\* every batch result, in batch order and within a batch in the order of its
\* error list, each at level ERROR for severity FATAL or ERROR, WARNING for
\* WARNING and INFO otherwise.
C17_OneEntryPerErrorInOrder ==
    pc \in {"created", "exported"} =>
        LET entries == report_results.report.entries
        IN  /\ Len(entries) = ErrorsBefore(Len(batch_results) + 1)
            /\ \A i \in 1..Len(batch_results) :
                 \A j \in 1..Len(batch_results[i].errors) :
                    LET error == batch_results[i].errors[j]
                        entry == entries[ErrorsBefore(i) + j]
                    IN  /\ entry.error_code = error.code
                        /\ entry.identificador = error.person_id_external
                        /\ entry.field_id = error.field_id
                        /\ entry.metadata_path = error.metadata_path
                        /\ entry.level = LevelOfSeverity(error.severity)

\* C17's case: a report was created from two batch results whose errors are
\* FATAL, WARNING and without severity, reported as ERROR, WARNING and INFO.
C17_Witness ==
    /\ pc = "created"
    /\ Len(batch_results) = 2
    /\ Len(batch_results[1].errors) = 2
    /\ batch_results[1].errors[1].severity = "FATAL"
    /\ batch_results[1].errors[2].severity = NoStr
    /\ batch_results[2].errors # <<>>
    /\ batch_results[2].errors[1].severity = "WARNING"
    /\ Len(report_results.report.entries) = 3
    /\ report_results.report.entries[1].level = "ERROR"
    /\ report_results.report.entries[2].level = "INFO"
    /\ report_results.report.entries[3].level = "WARNING"

\* The errors of the batch results handed to create_report, by position.
CarriedErrors ==
    { p \in (1..Len(batch_results)) \X (1..MaxBatchErrors) :
         p[2] <= Len(batch_results[p[1]].errors) }

\* The business identifiers the errors carry.
CarriedIdentifiers ==
    { batch_results[p[1]].errors[p[2]].person_id_external : p \in CarriedErrors } \ { None }

\* C18: in the metrics of the created report the per-business-identifier
\* map has one key per distinct identifier carried by the errors, and the
\* count under a key is the number of errors carrying that identifier.
C18_CountsPerBusinessIdentifier ==
    pc \in {"created", "exported"} =>
        LET counts == report_results.report.metrics.identificador_counts
        IN  /\ Range(DictKeys(counts)) = CarriedIdentifiers
            /\ \A id \in CarriedIdentifiers :
                 DictGet(counts, id)
                    = Cardinality({ p \in CarriedErrors :
                         batch_results[p[1]].errors[p[2]].person_id_external = id })

\* {output_dir}/{base_filename}_{timestamp}{ext} of a direct export.
ExpectedFile(format_name) ==
    "backend/storage/reports/validation_"
        \o ToString(report_results.report.timestamp \div TicksPerSecond)
        \o "." \o format_name

\* C19: export_multiple_formats leaves a result for every formatter it was
\* given: the 'ERROR:' sentinel under the name of a format that failed, and
\* for every other format, before or after a failure, the path
\* {base_filename}_{timestamp}{ext} in the output directory, where the
\* formatted report was written.
C19_ExportContinuesAfterFailure ==
    pc = "exported" =>
        /\ Range(DictKeys(report_results.filepaths)) = Range(report_formats)
        /\ \A k \in 1..Len(report_formats) :
             LET format_name == report_formats[k]
                 result == DictGet(report_results.filepaths, format_name)
             IN  IF format_name \in export_broken
                 THEN /\ StartsWith(result, "ERROR:")
                      /\ ~DictHas(fs, ExpectedFile(format_name))
                 ELSE /\ result = ExpectedFile(format_name)
                      /\ DictHas(fs, result)
                      /\ DictGet(fs, result).format = format_name
                      /\ DictGet(fs, result).entries = report_results.report.entries

\* C19's case: the first of two formats failed and the second was exported.
C19_Witness ==
    /\ pc = "exported"
    /\ report_formats = << "json", "csv" >>
    /\ export_broken = {"json"}
    /\ StartsWith(DictGet(report_results.filepaths, "json"), "ERROR:")
    /\ DictGet(report_results.filepaths, "csv") = "backend/storage/reports/validation_1.csv"
    /\ DictHas(fs, "backend/storage/reports/validation_1.csv")
    /\ report_results.report.entries # <<>>

\* What run i returns and writes when it executes alone, entered and
\* reporting at the clock readings it had.
RunAlone(i) ==
    LET run == runs[i]
        v == ValidateSteps(run.file, run.schema)
        rr == GenerateAndExport(v.batch_results, run.report_results.report.timestamp,
                                run.output_dir,
                                "validation_" \o Timestamp(run.start_time),
                                report_formats, export_broken, <<>>)
    IN  IF v.aborted # NoStr
        THEN [results |-> [NewResults(run.start_time) EXCEPT
                              !.errors = << v.aborted >>],
              files |-> <<>>]
        ELSE [results |-> LoadReport(NewResults(run.start_time), rr, rr.files),
              files |-> rr.files]

\* C20: whatever the interleaving of two runs, a run that has returned has
\* the result it has when executed alone, and once both have returned each
\* file a run exported holds what that run wrote.
C20_ConcurrentRunsIndependent ==
    /\ \A i \in 1..Len(runs) :
          runs[i].pc = "done" => runs[i].results = RunAlone(i).results
    /\ (\A i \in 1..Len(runs) : runs[i].pc = "done") =>
          \A i \in 1..Len(runs) : \A k \in 1..Len(RunAlone(i).files) :
             LET written == RunAlone(i).files[k]
             IN  DictHas(fs, written.k) /\ DictGet(fs, written.k) = written.v

\* The number of rows in the batches yielded before the last one.
RowsBeforeLastBatch == SeqSum([k \in 1..(Len(yielded) - 1) |-> Len(yielded[k])])

\* C21: every row of a transformed batch has as original_row_index its
\* 0-based position among the data rows handed over by the stream so far
\* (distinct and increasing over the run, whatever the sizes of the batches),
\* and csv_row_index = data_start_index + original_row_index.
C21_RowIndexIsPositionInData ==
    (Loaded /\ pc = "validate") =>
        \A j \in 1..Len(transformed_rows) :
            /\ transformed_rows[j].original_row_index = RowsBeforeLastBatch + j - 1
            /\ transformed_rows[j].csv_row_index
                  = csv_context.data_start_index + transformed_rows[j].original_row_index

\* The required field nodes of the schema, under some element.
RequiredFieldNodes ==
    { i \in 1..Len(schema) :
        schema[i].tag = "hris-field" /\ schema[i].required /\ ParentElement(i) # 0 }

\* The header column of a field node: entity_field, or COUNTRY_entity_field
\* under a country-scoped element.
ColumnOfNode(i) ==
    LET e == schema[ParentElement(i)].technical_id
    IN  IF i \in CsfFieldNodes
        THEN << schema[ParentElement(i)].country >> \o e \o schema[i].technical_id
        ELSE e \o schema[i].technical_id

\* The entity ids the field of a node is known under.
EntityIdsOfNode(i) ==
    LET e == schema[ParentElement(i)].technical_id
    IN  IF i \in CsfFieldNodes
        THEN { e, << schema[ParentElement(i)].country >> \o e }
        ELSE { e }

\* C22: when the header has the column of a required schema field, the
\* required_columns rule reports no REQUIRED_COLUMN_MISSING for that field
\* under any of its entity ids, the country-prefixed one included.
C22_PresentColumnIsNotMissing ==
    (pc = "rows" /\ Len(RequiredColumnEvents) = 1) =>
        \A i \in RequiredFieldNodes :
            ColumnOfNode(i) \in Range(file.columns) =>
                \A k \in 1..Len(RequiredColumnEvents[1].errors) :
                    LET error == RequiredColumnEvents[1].errors[k]
                    IN  ~(/\ error.code = "REQUIRED_COLUMN_MISSING"
                          /\ error.field_id = schema[i].technical_id
                          /\ error.entity_id \in EntityIdsOfNode(i))

\* A direct call on a row as the pipeline makes it: the maps are those of the
\* header and the row has as many cells as the header.
RowAsInPipeline ==
    /\ trans_context = TransformCsvContext(file.columns)
    /\ Len(raw_batch[1]) = Len(file.columns)

\* C23: the cell of every header column is passed to field validation
\* exactly once: there are as many validated triples as columns, and each
\* column has a triple with its parsed entity and field and with its cell as
\* value, also when two columns have the same entity and field.
C23_EveryCellValidatedOnce ==
    (pc = "row_validated" /\ RowAsInPipeline) =>
        /\ Len(FieldEvents) = Len(file.columns)
        /\ \A c \in 1..Len(file.columns) :
             \E e \in 1..Len(FieldEvents) :
                LET t == TripleOf(FieldEvents[e])
                IN  /\ t.entity_id = trans_context.parsed_columns[c].element_id
                    /\ t.field_id = trans_context.parsed_columns[c].field_id
                    /\ t.value = raw_batch[1][c]

\* The schema's declarations of a field for a country: the field nodes with
\* that id under an element with that id, of origin csf and that country.
DeclarationsFor(country, element_id, field_id) ==
    { i \in CsfFieldNodes :
        /\ schema[ParentElement(i)].country = country
        /\ schema[ParentElement(i)].technical_id = element_id
        /\ schema[i].technical_id = field_id }

\* C24: the FieldMetadata applied to the value of a country-scoped column
\* with country code C is the schema's record of the field for C: its
\* country_code is C and its required, type and max-length are the ones
\* declared for C, also when other countries declare the same field.
C24_MetadataOfTheColumnsCountry ==
    Validating =>
        \A e \in 1..Len(FieldEvents) :
            LET ev == FieldEvents[e]
                column == trans_context.parsed_columns[ColumnOf(TripleOf(ev))]
            IN  (column.is_country_specific /\ ev.fm # NoMetadata) =>
                    \A i \in DeclarationsFor(column.country_code, column.element_id,
                                             column.field_id) :
                        /\ ev.fm.country_code = column.country_code
                        /\ ev.fm.is_required = schema[i].required
                        /\ ev.fm.data_type = schema[i].type
                        /\ ev.fm.max_length = ParseMaxLength(schema[i].max_length)

\* The required schema fields whose column the header lacks.
MissingRequiredNodes ==
    { i \in RequiredFieldNodes : ColumnOfNode(i) \notin Range(file.columns) }

\* C25: the report of a completed run has exactly one REQUIRED_COLUMN_MISSING
\* entry per missing required column, whatever the number of data rows and
\* of batches, also for a file without data rows.
C25_OneEntryPerMissingColumn ==
    (pc = "done" /\ results.success) =>
        \A i \in MissingRequiredNodes :
            CountIf(report_results.report.entries,
                    LAMBDA entry : /\ entry.error_code = "REQUIRED_COLUMN_MISSING"
                                   /\ entry.field_id = schema[i].technical_id) = 1

\* C26: a batch is pulled from the stream only when every batch pulled
\* before it has been transformed and validated (its result is in
\* batch_results), and the results carry the batch indices 0, 1, 2, ... in
\* the order the batches were read.
C26_StrictSequentialPipelining ==
    /\ [](Loaded =>
            /\ Len(yielded) - 1 <= Len(batch_results)
            /\ Len(batch_results) <= Len(yielded)
            /\ \A k \in 1..Len(batch_results) :
                  /\ batch_results[k].batch_index = k - 1
                  /\ batch_results[k].processed_rows = Len(yielded[k]))
    /\ [][Len(yielded') > Len(yielded) =>
             /\ Len(batch_results) = Len(yielded)
             /\ Len(yielded') = Len(yielded) + 1
             /\ batch_results' = batch_results]_vars

\* C26's case: the second batch has been pulled, and the result of the
\* first one, with batch_index 0, is there.
C26_Witness ==
    /\ Loaded
    /\ pc = "transform_batch"
    /\ Len(yielded) = 2
    /\ Len(batch_results) = 1
    /\ batch_results[1].batch_index = 0
    /\ batch_results[1].errors # <<>>

\* ------------------------------------------------------------------ C27
\* The search the FIELD rules' metadata is said to come from: the exact
\* entity_field key of the full-path index, the key without the country
\* prefix of the entity id, the CSV column name, the field id in the
\* entity's own field map; NoMetadata when none of them hits.
OrderedSearch(mc, t, original_name) ==
    LET keys == << t.entity_id \o t.field_id >>
                \o (IF StartsWithAny(t.entity_id, COUNTRY_PREFIXES)
                    THEN << Tail(t.entity_id) \o t.field_id >> ELSE <<>>)
                \o (IF original_name # None THEN << original_name >> ELSE <<>>)
        hit  == FirstHit(keys, mc.field_by_full_path)
    IN  IF hit # None THEN DictGet(mc.field_by_full_path, hit)
        ELSE IF DictHas(mc.entities, t.entity_id)
                /\ DictHas(DictGet(mc.entities, t.entity_id).fields, t.field_id)
             THEN DictGet(DictGet(mc.entities, t.entity_id).fields, t.field_id)
             ELSE NoMetadata

\* C27: for every (entity, field, value) triple of a validated row, the
\* FieldMetadata the FIELD rules got is the first hit of the ordered search
\* (exact key, key without country prefix, column name, own field map).
C27_MetadataIsFirstHitOfOrderedSearch ==
    pc = "row_validated" =>
        \A j \in 1..Len(trace) :
            LET t == RowTriples(transformed_rows[1])[j]
            IN  trace[j].fm = OrderedSearch(metadata_context, t,
                                  GetColumnName(trans_context, t.entity_id, t.field_id))

\* ------------------------------------------------------------------ C28
\* The batches of the file from its first data row: those a generator that
\* has not run yields.
BatchesOfFile == IterateToEnd(NewReader, file, csv_context, <<>>).batches

\* C28: a second iteration of data_stream, after a first one that consumed
\* it partly or fully, yields the batches of the file from the first data row.
C28_DataStreamIsRestartable ==
    pc = "iterated_again" =>
        SubSeq(yielded, batch_index + 1, Len(yielded)) = BatchesOfFile

\* ------------------------------------------------------------------ C29
\* The (entity, field) of the cell at col_index (0-based) in the arguments
\* of transform_row, None when one of the four lookups fails.
CellTarget(col_index, tc) ==
    IF col_index >= Len(tc.column_to_entity_map)
       \/ ~DictHas(tc.column_to_entity_map, col_index) THEN None
    ELSE LET e == DictGet(tc.column_to_entity_map, col_index)
         IN  IF e = EmptyStr \/ ~DictHas(tc.entities, e) THEN None
             ELSE IF ~DictHas(DictGet(tc.entities, e).column_index_mapping, col_index)
                  THEN None
                  ELSE << e, DictGet(DictGet(tc.entities, e).column_index_mapping,
                                     col_index).field_id >>

\* tr is what the sentence says of the transformation of row_values: the raw
\* values are the input, every cell with a target has its value stored under
\* that target (the last such cell, when cells share a target) and no error,
\* every other cell exactly one ROW_TRANSFORMATION_ERROR, in cell order.
RowKept(tr, row_values, tc) ==
    LET cols     == 0..(Len(row_values) - 1)
        unsolved == { c \in cols : CellTarget(c, tc) = None }
    IN  /\ tr.raw_values = row_values
        /\ \A c \in cols \ unsolved :
              LET t    == CellTarget(c, tc)
                  last == CHOOSE d \in cols :
                             /\ CellTarget(d, tc) = t
                             /\ \A x \in cols : CellTarget(x, tc) = t => x <= d
              IN  /\ DictHas(tr.data_by_entity, t[1])
                  /\ DictHas(DictGet(tr.data_by_entity, t[1]), t[2])
                  /\ DictGet(DictGet(tr.data_by_entity, t[1]), t[2]) = row_values[last + 1]
        /\ Len(tr.errors) = Cardinality(unsolved)
        /\ \A c \in unsolved :
              CountIf(tr.errors,
                      LAMBDA e : e = RowTransformationError(tr.original_row_index, c)) = 1
        /\ \A i, j \in 1..Len(tr.errors) :
              i < j => \E c, d \in unsolved :
                          /\ c < d
                          /\ tr.errors[i].column_name = <<"col", ToString(c)>>
                          /\ tr.errors[j].column_name = <<"col", ToString(d)>>

\* C29: transform_row keeps raw_values, stores every resolvable cell and
\* appends one ROW_TRANSFORMATION_ERROR for every other cell; a cell that
\* cannot be resolved stops neither its row nor the rows after it in a batch.
C29_UnresolvedCellsAreSkipped ==
    /\ pc = "row_transformed" =>
          /\ Len(transformed_rows) = 1
          /\ RowKept(transformed_rows[1], raw_batch[1], trans_context)
    /\ pc = "batch_transformed" =>
          /\ Len(transformed_rows) = Len(raw_batch)
          /\ \A k \in 1..Len(raw_batch) :
                RowKept(transformed_rows[k], raw_batch[k], trans_context)

\* A batch of two rows whose first row has an unresolved cell before a
\* resolvable one: the cell after it and the second row are transformed.
C29_Witness ==
    /\ pc = "batch_transformed"
    /\ Len(raw_batch) = 2
    /\ CellTarget(0, trans_context) # None
    /\ CellTarget(1, trans_context) = None
    /\ CellTarget(2, trans_context) # None
    /\ Len(raw_batch[1]) = 3
    /\ Len(transformed_rows[1].errors) = 1
    /\ DictGet(DictGet(transformed_rows[1].data_by_entity,
                       CellTarget(2, trans_context)[1]),
               CellTarget(2, trans_context)[2]) = raw_batch[1][3]
    /\ transformed_rows[2].raw_values = raw_batch[2]
    /\ transformed_rows[2].errors # <<>>

\* ------------------------------------------------------------------ C30
\* The registry has rule_id enabled.
EnabledInRegistry(rule_id) ==
    DictHas(registry.configurations, rule_id) /\ DictGet(registry.configurations, rule_id)

\* The rules the validate_batch call under way has executed so far.
ExecutedRules ==
    { trace[i].rule : i \in { k \in 1..Len(trace) : trace[k].kind # "field" } }
    \cup UNION { { trace[i].calls[j].rule : j \in 1..Len(trace[i].calls) } :
                 i \in { k \in 1..Len(trace) : trace[k].kind = "field" } }

\* C30: a validate_batch call executes no rule the registry has disabled,
\* whether its engine was built before or after configure_rule, it goes
\* through every GLOBAL and ENTITY rule the registry has enabled, and it
\* leaves the registry's enabled state as it is.
C30_ConfigureRuleGovernsLaterBatches ==
    /\ [](Validating => \A r \in ExecutedRules : EnabledInRegistry(r))
    /\ [](BatchValidated =>
             \A r \in Range(registry.rule_instances) :
                (EnabledInRegistry(r) /\ RuleScope(r) # "FIELD") => r \in ExecutedRules)
    /\ [][Validating => registry' = registry]_vars

====
